---- MODULE Spec2Model ----
(***************************************************************************)
(* EchoLoop (shchon/echo_app): back-translation practice.                  *)
(*                                                                         *)
(* The application is a set of loosely coupled parts.  Each part has its   *)
(* own group of variables, its own initial predicate and next-state        *)
(* relation, and its own specification:                                    *)
(*                                                                         *)
(*   SpecWorkflow  the practice workflow of App (step, texts, AI calls)    *)
(*   SpecProxy     the WebDAV proxy handler (api/webdav-sync.ts)           *)
(*   SpecSync      LibraryModal's push / pull through the proxy            *)
(*   SpecStore     App's history / vocabulary / config and localStorage    *)
(*   SpecAI        the AI service functions (services/geminiService)       *)
(*                                                                         *)
(* Strings are sequences of one-character strings, so that trim, base64    *)
(* and JSON are computed rather than assumed.                              *)
(***************************************************************************)
EXTENDS Integers, Sequences, FiniteSets, TLC

(***************************************************************************)
(* Bounds of the model.                                                    *)
(***************************************************************************)
\* most items kept in history in the workflow
MaxHistory == 1
\* largest value of the clock (Date.now())
MaxClock == 1
\* syncs sent to the proxy
MaxSyncs == 2
\* the runs of handleTestConnection a behaviour holds
MaxTests == 2

(***************************************************************************)
(* Strings.                                                                *)
(***************************************************************************)
Whitespace == {" "}

\* the texts a user types: empty, whitespace only, a word, and a word with
\* whitespace before and after it
Texts == {<<>>, <<" ">>, <<"a">>, <<" ", "a", " ">>}

RECURSIVE TrimStart(_)
TrimStart(s) ==
  IF s # <<>> /\ Head(s) \in Whitespace THEN TrimStart(Tail(s)) ELSE s

RECURSIVE TrimEnd(_)
TrimEnd(s) ==
  IF s # <<>> /\ s[Len(s)] \in Whitespace
  THEN TrimEnd(SubSeq(s, 1, Len(s) - 1))
  ELSE s

\* String.prototype.trim
Trim(s) == TrimEnd(TrimStart(s))

\* !text.trim(): the empty string is the only falsy string
IsBlank(s) == Trim(s) = <<>>

(***************************************************************************)
(* Base64 (Buffer.from(text).toString('base64')).                          *)
(***************************************************************************)
Base64Alphabet ==
  <<"A", "B", "C", "D", "E", "F", "G", "H", "I", "J", "K", "L", "M",
    "N", "O", "P", "Q", "R", "S", "T", "U", "V", "W", "X", "Y", "Z",
    "a", "b", "c", "d", "e", "f", "g", "h", "i", "j", "k", "l", "m",
    "n", "o", "p", "q", "r", "s", "t", "u", "v", "w", "x", "y", "z",
    "0", "1", "2", "3", "4", "5", "6", "7", "8", "9", "+", "/">>

\* the UTF-8 byte of each character credentials are written with
CharCode(c) ==
  CASE c = ":" -> 58
    [] c = "a" -> 97
    [] c = "b" -> 98
    [] c = "u" -> 117

\* Buffer.from(text): the bytes of a text
Bytes(text) == [i \in 1..Len(text) |-> CharCode(text[i])]

Sextet(n) == Base64Alphabet[n + 1]

RECURSIVE Base64Encode(_)
\* toString('base64') of a sequence of bytes
Base64Encode(bytes) ==
  IF bytes = <<>> THEN <<>>
  ELSE IF Len(bytes) = 1 THEN
    LET n == bytes[1] * 65536
    IN  <<Sextet(n \div 262144), Sextet((n \div 4096) % 64), "=", "=">>
  ELSE IF Len(bytes) = 2 THEN
    LET n == bytes[1] * 65536 + bytes[2] * 256
    IN  <<Sextet(n \div 262144), Sextet((n \div 4096) % 64), Sextet((n \div 64) % 64), "=">>
  ELSE
    LET n == bytes[1] * 65536 + bytes[2] * 256 + bytes[3]
    IN  <<Sextet(n \div 262144), Sextet((n \div 4096) % 64),
          Sextet((n \div 64) % 64), Sextet(n % 64)>>
        \o Base64Encode(SubSeq(bytes, 4, Len(bytes)))

\* the value of a base64 digit
SextetValue(c) == (CHOOSE i \in 1..64 : Base64Alphabet[i] = c) - 1

RECURSIVE Base64Decode(_)
\* what a server reads out of base64 text: its bytes
Base64Decode(text) ==
  IF Len(text) < 4 THEN <<>>
  ELSE
    LET q == SubSeq(text, 1, 4)
        pad == IF q[3] = "=" THEN 2 ELSE IF q[4] = "=" THEN 1 ELSE 0
        n == SextetValue(q[1]) * 262144 + SextetValue(q[2]) * 4096
             + (IF pad < 2 THEN SextetValue(q[3]) * 64 ELSE 0)
             + (IF pad < 1 THEN SextetValue(q[4]) ELSE 0)
        three == <<n \div 65536, (n \div 256) % 256, n % 256>>
    IN  SubSeq(three, 1, 3 - pad) \o Base64Decode(SubSeq(text, 5, Len(text)))

(***************************************************************************)
(* JavaScript values and JSON.                                             *)
(*                                                                         *)
(* A value is a tagged record; an object is the sequence of its            *)
(* <<key, value>> pairs in insertion order.  A JSON text is a sequence of  *)
(* tokens; the string that names a member is a token of its own kind.      *)
(***************************************************************************)
Undef == [t |-> "undef"]
JNull == [t |-> "null"]
Num(n) == [t |-> "num", n |-> n]
\* a string given by its characters
Str(s) == [t |-> "str", s |-> s]
\* a string the code writes as a literal
Lit(name) == [t |-> "str", lit |-> name]
Bool(b) == [t |-> "bool", b |-> b]
Arr(a) == [t |-> "arr", a |-> a]
Obj(o) == [t |-> "obj", o |-> o]

\* obj[key]: undefined for a key the object lacks and for a non-object
Get(v, key) ==
  IF v.t = "obj" /\ \E i \in 1..Len(v.o) : v.o[i][1] = key
  THEN v.o[CHOOSE i \in 1..Len(v.o) : v.o[i][1] = key][2]
  ELSE Undef

\* obj[key] = val on the pairs of an object
Put(pairs, key, val) ==
  IF \E i \in 1..Len(pairs) : pairs[i][1] = key
  THEN [i \in 1..Len(pairs) |-> IF pairs[i][1] = key THEN <<key, val>> ELSE pairs[i]]
  ELSE Append(pairs, <<key, val>>)

\* Array.isArray
IsArray(v) == v.t = "arr"

\* the values that are falsy among the ones modelled
Falsy(v) ==
  \/ v.t \in {"undef", "null"}
  \/ v.t = "str" /\ "s" \in DOMAIN v /\ v.s = <<>>
  \/ v.t = "num" /\ v.n = 0
  \/ v.t = "bool" /\ ~v.b

Punct(c) == [k |-> "p", c |-> c]
TokNull == [k |-> "null"]
TokWs == [k |-> "ws"]
\* a token no JSON text holds, such as the start of an HTML error page
TokJunk == [k |-> "junk"]

RECURSIVE JsonTokens(_, _)
RECURSIVE ElemTokens(_, _, _)
RECURSIVE MemberTokens(_, _, _)
\* JSON.stringify(v, null, indent ? 2 : undefined) for a v that is not
\* undefined.  In an array undefined is written as null; in an object a
\* member whose value is undefined is left out.
JsonTokens(v, indent) ==
  CASE v.t = "num" -> <<[k |-> "num", n |-> v.n]>>
    [] v.t = "str" -> <<[k |-> "str", v |-> v]>>
    [] v.t = "bool" -> <<[k |-> "bool", b |-> v.b]>>
    [] v.t \in {"null", "undef"} -> <<TokNull>>
    [] v.t = "arr" ->
         IF v.a = <<>> THEN <<Punct("["), Punct("]")>>
         ELSE <<Punct("[")>> \o ElemTokens(v.a, 1, indent)
              \o (IF indent THEN <<TokWs>> ELSE <<>>) \o <<Punct("]")>>
    [] v.t = "obj" ->
         LET kept == SelectSeq(v.o, LAMBDA m : m[2] # Undef)
         IN  IF kept = <<>> THEN <<Punct("{"), Punct("}")>>
             ELSE <<Punct("{")>> \o MemberTokens(kept, 1, indent)
                  \o (IF indent THEN <<TokWs>> ELSE <<>>) \o <<Punct("}")>>

ElemTokens(a, i, indent) ==
  IF i > Len(a) THEN <<>>
  ELSE (IF i > 1 THEN <<Punct(",")>> ELSE <<>>)
       \o (IF indent THEN <<TokWs>> ELSE <<>>)
       \o JsonTokens(a[i], indent)
       \o ElemTokens(a, i + 1, indent)

MemberTokens(o, i, indent) ==
  IF i > Len(o) THEN <<>>
  ELSE (IF i > 1 THEN <<Punct(",")>> ELSE <<>>)
       \o (IF indent THEN <<TokWs>> ELSE <<>>)
       \o <<[k |-> "key", name |-> o[i][1]], Punct(":")>>
       \o (IF indent THEN <<TokWs>> ELSE <<>>)
       \o JsonTokens(o[i][2], indent)
       \o MemberTokens(o, i + 1, indent)

\* JSON.stringify(v)
Stringify(v) == JsonTokens(v, FALSE)

\* JSON.stringify(v, null, 2)
StringifyIndented(v) == JsonTokens(v, TRUE)

RECURSIVE SkipWs(_, _)
SkipWs(toks, i) ==
  IF i <= Len(toks) /\ toks[i] = TokWs THEN SkipWs(toks, i + 1) ELSE i

ParseFail == [ok |-> FALSE, v |-> Undef, next |-> 0]

IsPunct(toks, i, c) == i <= Len(toks) /\ toks[i] = Punct(c)

RECURSIVE ParseValue(_, _)
RECURSIVE ParseElems(_, _, _)
RECURSIVE ParseMembers(_, _, _)
\* the value that starts at token i: [ok, v, next]
ParseValue(toks, i0) ==
  LET i == SkipWs(toks, i0) IN
  IF i > Len(toks) THEN ParseFail
  ELSE LET tok == toks[i] IN
    CASE tok.k = "num" -> [ok |-> TRUE, v |-> Num(tok.n), next |-> i + 1]
      [] tok.k = "str" -> [ok |-> TRUE, v |-> tok.v, next |-> i + 1]
      [] tok.k = "bool" -> [ok |-> TRUE, v |-> Bool(tok.b), next |-> i + 1]
      [] tok.k = "null" -> [ok |-> TRUE, v |-> JNull, next |-> i + 1]
      [] tok = Punct("[") ->
           LET j == SkipWs(toks, i + 1) IN
           IF IsPunct(toks, j, "]") THEN [ok |-> TRUE, v |-> Arr(<<>>), next |-> j + 1]
           ELSE ParseElems(toks, j, <<>>)
      [] tok = Punct("{") ->
           LET j == SkipWs(toks, i + 1) IN
           IF IsPunct(toks, j, "}") THEN [ok |-> TRUE, v |-> Obj(<<>>), next |-> j + 1]
           ELSE ParseMembers(toks, j, <<>>)
      [] OTHER -> ParseFail

\* the elements of an array from token i on, after the elements acc
ParseElems(toks, i, acc) ==
  LET e == ParseValue(toks, i) IN
  IF ~e.ok THEN ParseFail
  ELSE LET j == SkipWs(toks, e.next) IN
       IF IsPunct(toks, j, ",") THEN ParseElems(toks, j + 1, Append(acc, e.v))
       ELSE IF IsPunct(toks, j, "]")
            THEN [ok |-> TRUE, v |-> Arr(Append(acc, e.v)), next |-> j + 1]
            ELSE ParseFail

\* the members of an object from token i on, after the members acc
ParseMembers(toks, i0, acc) ==
  LET i == SkipWs(toks, i0) IN
  IF ~(i <= Len(toks) /\ toks[i].k = "key") THEN ParseFail
  ELSE LET c == SkipWs(toks, i + 1) IN
       IF ~IsPunct(toks, c, ":") THEN ParseFail
       ELSE LET e == ParseValue(toks, c + 1) IN
            IF ~e.ok THEN ParseFail
            ELSE LET j == SkipWs(toks, e.next)
                     members == Put(acc, toks[i].name, e.v)
                 IN  IF IsPunct(toks, j, ",") THEN ParseMembers(toks, j + 1, members)
                     ELSE IF IsPunct(toks, j, "}")
                          THEN [ok |-> TRUE, v |-> Obj(members), next |-> j + 1]
                          ELSE ParseFail

\* JSON.parse(text): [ok |-> FALSE] stands for the SyntaxError it throws
Parse(toks) ==
  LET r == ParseValue(toks, 1) IN
  IF r.ok /\ SkipWs(toks, r.next) = Len(toks) + 1
  THEN [ok |-> TRUE, v |-> r.v]
  ELSE [ok |-> FALSE, v |-> Undef]

RECURSIVE Normalise(_)
\* v as every reader of its members sees it: a member whose value is
\* undefined reads like a missing member
Normalise(v) ==
  CASE v.t = "arr" -> Arr([i \in 1..Len(v.a) |-> Normalise(v.a[i])])
    [] v.t = "obj" ->
         LET kept == SelectSeq(v.o, LAMBDA m : m[2] # Undef)
         IN  Obj([i \in 1..Len(kept) |-> <<kept[i][1], Normalise(kept[i][2])>>])
    [] OTHER -> v

\* two values no reader of their members can tell apart
SameValue(a, b) == Normalise(a) = Normalise(b)

(***************************************************************************)
(* Variables.                                                              *)
(***************************************************************************)
VARIABLES
  \* ---- practice workflow (App) ----
  step,             \* AppStep
  sourceText,
  translatedText,
  backTranslation,
  analysis,         \* AnalysisResult or Null
  error,            \* error message or Null
  wfCall,           \* the AI call the workflow awaits: [fn, state, text, result]
  wfHistory,        \* history as the workflow sees it
  genCall,          \* the generatePracticeContent call in flight: [state, text]
  now,              \* Date.now()
  lastOp            \* the handler or continuation that ran last

wfVars == <<step, sourceText, translatedText, backTranslation, analysis, error,
            wfCall, wfHistory, genCall, now, lastOp>>

VARIABLES
  \* ---- WebDAV proxy handler (api/webdav-sync.ts) and the WebDAV server ----
  pxReq,            \* the request being handled: [method, body]
  pxPc,             \* "idle", "fetching", "replied", "done"
  pxOut,            \* the outbound requests of this invocation
  pxReply,          \* the server's reply to the outbound request
  pxRes,            \* the last response written: [status, body]
  pxMark,           \* one earlier invocation, remembered for comparison
  davFile           \* the file at webdav.url: [exists, text]

pxVars == <<pxReq, pxPc, pxOut, pxReply, pxRes, pxMark, davFile>>

VARIABLES
  \* ---- App: library data, settings, localStorage ----
  history,          \* HistoryItem[]
  vocabulary,       \* VocabularyItem[]
  aiConfig,         \* AIConfig
  settingsTab,      \* 'preset' or 'custom'
  storage,          \* localStorage: key -> [present, text]
  effects,          \* effects and renders React has scheduled, in order
  phase,            \* "unmounted" or "mounted"
  userActed         \* some user operation has run since the app started

dataVars == <<history, vocabulary>>
stVars == <<aiConfig, settingsTab, storage, effects, phase, userActed>>

VARIABLES
  \* ---- LibraryModal: WebDAV sync ----
  webdavConfig,     \* the webdavConfig prop
  syCall,           \* the push or pull in flight
  syAlert,          \* the last dialog: the text of the last alert, or
                    \* the answer to the confirmation when no alert followed
  syPushed,         \* the history and vocabulary of the last push
  syCount           \* the number of syncs sent so far

syVars == <<webdavConfig, syCall, syAlert, syPushed, syCount>>

VARIABLES
  \* ---- AI service ----
  aiFn,             \* the function called last
  aiArg,            \* its config argument
  aiPc,             \* "idle", "awaiting", "settled" or "done"
  aiRequests,       \* the provider requests the call has issued
  aiReply,          \* how the provider settled the request
  aiResult          \* what the call returned or threw

aiVars == <<aiFn, aiArg, aiPc, aiRequests, aiReply, aiResult>>

VARIABLES
  \* ---- App: the connection test of the settings ----
  connectionStatus, \* 'idle', 'testing', 'success' or 'error'
  cnTests           \* the runs of handleTestConnection, in the order they
                    \* started: [phase, success, refused]

cnVars == <<connectionStatus, cnTests>>

VARIABLES
  \* ---- LibraryModal: search and review mode ----
  searchTerm,       \* the text of the search input
  isReviewMode,     \* the flash cards are shown
  reviewIndex,      \* the index of the card shown
  isFlipped,        \* the card shows its answer
  reviewInput       \* what the user typed for the card

rvVars == <<searchTerm, isReviewMode, reviewIndex, isFlipped, reviewInput>>

vars == <<wfVars, pxVars, dataVars, stVars, syVars, aiVars, cnVars, rvVars>>

outsideWorkflow == <<pxVars, dataVars, stVars, syVars, aiVars, cnVars, rvVars>>
outsideProxy == <<wfVars, dataVars, stVars, syVars, aiVars, cnVars, rvVars>>
outsideStore == <<wfVars, pxVars, syVars, aiVars, cnVars, rvVars>>
outsideLists == <<wfVars, pxVars, syVars, aiVars, cnVars>>
outsideSettings == <<wfVars, pxVars, syVars, aiVars, cnTests, rvVars>>
outsideSync == <<wfVars, aiVars, cnVars, rvVars>>
outsidePull == <<wfVars, aiVars, cnVars>>
outsideAI == <<wfVars, pxVars, dataVars, stVars, syVars, cnVars, rvVars>>
outsideConnection == <<wfVars, pxVars, dataVars, stVars, syVars, aiVars, rvVars>>
outsideReview == <<wfVars, pxVars, syVars, aiVars, cnVars>>

\* null as an error message
Null == "null"

\* null as an object
NullObj == [kind |-> "null"]

(***************************************************************************)
(* The WebDAV proxy handler and the server it relays to.                   *)
(***************************************************************************)
NoReq == [method |-> "none", body |-> Undef]
NoReply == [kind |-> "none", status |-> 0, text |-> <<>>]
NoRes == [status |-> 0, body |-> <<>>]
NoMark == [set |-> FALSE, later |-> "none", req |-> NoReq, reply |-> NoReply, res |-> NoRes]
\* the file at webdav.url, and who wrote it last
NoFile == [exists |-> FALSE, text |-> <<>>, writer |-> "other"]
File(text) == [exists |-> TRUE, text |-> text, writer |-> "other"]
FileOfProxy(text) == [exists |-> TRUE, text |-> text, writer |-> "proxy"]

\* a webdav member of a request body
WebDav(url, username, password) ==
  Obj(<< <<"url", Str(url)>>, <<"username", Str(username)>>, <<"password", Str(password)>> >>)

CompleteWebDavs ==
  {WebDav(<<"u">>, <<"a">>, <<"b">>), WebDav(<<"u">>, <<"a", "b">>, <<"b">>)}

IncompleteWebDavs ==
  {Undef,
   WebDav(<<>>, <<"a">>, <<"b">>), WebDav(<<"u">>, <<>>, <<"b">>),
   WebDav(<<"u">>, <<"a">>, <<>>),
   Obj(<< <<"url", Str(<<"u">>)>>, <<"username", Str(<<"a">>)>> >>)}

\* a small backup: what a push carries as data
SmallData ==
  Obj(<< <<"history", Arr(<<Obj(<< <<"id", Str(<<"1">>)>> >>)>>)>>, <<"vocabulary", Arr(<<>>)>> >>)

SyncBody(action, webdav, data) ==
  Obj(<< <<"action", action>>, <<"webdav", webdav>>, <<"data", data>> >>)

\* the bodies of the requests a client can send: no body, push and pull with
\* every webdav member, a push without data, and other or missing actions
ProxyBodies ==
  {Undef, JNull}
  \cup {SyncBody(Lit("push"), w, SmallData) : w \in CompleteWebDavs \cup IncompleteWebDavs}
  \cup {SyncBody(Lit("pull"), w, Undef) : w \in CompleteWebDavs \cup IncompleteWebDavs}
  \cup {SyncBody(Lit("push"), WebDav(<<"u">>, <<"a">>, <<"b">>), Undef)}
  \cup {SyncBody(a, w, Undef) :
          a \in {Lit("delete"), Undef}, w \in {WebDav(<<"u">>, <<"a">>, <<"b">>), Undef}}

\* the requests a client can send to /api/webdav-sync
ProxyRequests ==
  {[method |-> "POST", body |-> b] : b \in ProxyBodies}
  \cup {[method |-> "GET", body |-> b] :
          b \in {Undef, SyncBody(Lit("pull"), WebDav(<<"u">>, <<"a">>, <<"b">>), Undef)}}
  \cup {[method |-> "none", body |-> SyncBody(Lit("pull"), Undef, Undef)]}

\* what the file at webdav.url can hold before the first push, or after
\* another client wrote it: no file, a text that is no JSON, the JSON text
\* null, a backup
RemoteFiles ==
  {NoFile, File(<<TokJunk>>), File(Stringify(JNull)), File(StringifyIndented(SmallData))}

\* the statuses of a reply that is not ok
NotOkStatuses == {401}

\* !webdav || !webdav.url || !webdav.username || !webdav.password
MissingConfig(webdav) ==
  \/ Falsy(webdav)
  \/ Falsy(Get(webdav, "url"))
  \/ Falsy(Get(webdav, "username"))
  \/ Falsy(Get(webdav, "password"))

BasicPrefix == <<"B", "a", "s", "i", "c", " ">>

\* headers whose Authorization names the user alone
AuthorizationOfUser(webdav) ==
  BasicPrefix \o Base64Encode(Bytes(Get(webdav, "username").s))

\* 'Basic ' + Buffer.from(`${webdav.username}:${webdav.password}`).toString('base64')
Authorization(webdav) ==
  BasicPrefix
  \o Base64Encode(Bytes(Get(webdav, "username").s \o <<":">> \o Get(webdav, "password").s))

\* res.statusCode = status; res.end(JSON.stringify(body))
Respond(status, body) == [status |-> status, body |-> Stringify(body)]

ErrorBody(message) == Obj(<< <<"error", message>> >>)

\* a relay that sends a push as a POST
OutboundWithPost(action, webdav, data) ==
  [method |-> IF action = Lit("push") THEN "POST" ELSE "GET",
   url |-> Get(webdav, "url").s,
   authorization |-> Authorization(webdav), contentType |-> "none",
   body |-> <<>>]

\* the fetch the handler issues for an action, with the headers built so far
OutboundFor(action, webdav, data) ==
  IF action = Lit("push")
  THEN [method |-> "PUT", url |-> Get(webdav, "url").s,
        authorization |-> Authorization(webdav), contentType |-> "application/json",
        body |-> StringifyIndented(IF data.t \in {"undef", "null"} THEN Obj(<<>>) ELSE data)]
  ELSE [method |-> "GET", url |-> Get(webdav, "url").s,
        authorization |-> Authorization(webdav), contentType |-> "none",
        body |-> <<>>]

\* handler, from its entry to its first await or its response
ProxyHandle(req) ==
  /\ pxPc \in {"idle", "done"}
  /\ pxReq' = req
  /\ pxReply' = NoReply
  /\ LET method == IF req.method = "none" THEN "GET" ELSE req.method
         body == IF Falsy(req.body) THEN Obj(<<>>) ELSE req.body
         action == Get(body, "action")
         webdav == Get(body, "webdav")
         data == Get(body, "data")
     IN  IF method # "POST"
         THEN /\ pxRes' = Respond(405, ErrorBody(Lit("Method not allowed")))
              /\ pxPc' = "done"
              /\ pxOut' = <<>>
         ELSE IF MissingConfig(webdav)
         THEN /\ pxRes' = Respond(400, ErrorBody(Lit("Missing WebDAV configuration")))
              /\ pxPc' = "done"
              /\ pxOut' = <<>>
         ELSE IF action \in {Lit("push"), Lit("pull")}
         THEN /\ pxOut' = <<OutboundFor(action, webdav, data)>>
              /\ pxPc' = "fetching"
              /\ UNCHANGED pxRes
         ELSE /\ pxRes' = Respond(400, ErrorBody(Lit("Invalid action")))
              /\ pxPc' = "done"
              /\ pxOut' = <<>>
  /\ pxMark' = IF pxMark.set
               THEN [pxMark EXCEPT !.later = IF @ = "none" THEN "one" ELSE "many"]
               ELSE pxMark
  /\ UNCHANGED davFile

\* the WebDAV server, or the network before it, settles the outbound request
ServerReplies ==
  /\ UNCHANGED outsideProxy
  /\ pxPc = "fetching"
  /\ pxPc' = "replied"
  /\ LET o == pxOut[Len(pxOut)] IN
     \/ /\ pxReply' = [kind |-> "throw", status |-> 0, text |-> <<>>]
        /\ UNCHANGED davFile
     \/ /\ \E st \in NotOkStatuses : pxReply' = [kind |-> "notok", status |-> st, text |-> <<>>]
        /\ UNCHANGED davFile
     \/ /\ o.method = "GET" /\ ~davFile.exists
        /\ pxReply' = [kind |-> "notok", status |-> 404, text |-> <<>>]
        /\ UNCHANGED davFile
     \/ /\ o.method = "GET" /\ davFile.exists
        /\ pxReply' = [kind |-> "ok", status |-> 200, text |-> davFile.text]
        /\ UNCHANGED davFile
     \/ /\ o.method = "PUT"
        /\ pxReply' = [kind |-> "ok", status |-> 201, text |-> <<>>]
        /\ davFile' = FileOfProxy(o.body)
  /\ UNCHANGED <<pxReq, pxOut, pxRes, pxMark>>

\* the 500 of the catch block, answered with the last response instead
FailureResponseStale(message) ==
  IF pxRes # NoRes THEN pxRes ELSE Respond(500, ErrorBody(message))

\* the catch block: 500 with the error's message
FailureResponse(message) == Respond(500, ErrorBody(message))

\* a handler that answers a pull 200 whatever the body of the reply is
ResponseAfterLenient(action, reply) ==
  IF reply.kind = "throw" THEN FailureResponse(Lit("fetch failed"))
  ELSE IF reply.kind = "notok"
  THEN FailureResponse(Lit("WebDAV request failed"))
  ELSE IF action = Lit("push")
  THEN Respond(200, Obj(<< <<"success", Bool(TRUE)>> >>))
  ELSE Respond(200, Obj(<< <<"success", Bool(TRUE)>>, <<"data", Parse(reply.text).v>> >>))

\* what the handler answers once its fetch has settled with reply
ResponseAfter(action, reply) ==
  IF reply.kind = "throw" THEN FailureResponse(Lit("fetch failed"))
  ELSE IF reply.kind = "notok"
  THEN FailureResponse([t |-> "str",
                        lit |-> IF action = Lit("push") THEN "WebDAV upload failed: "
                                ELSE "WebDAV download failed: ",
                        status |-> reply.status])
  ELSE IF action = Lit("push")
  THEN Respond(200, Obj(<< <<"success", Bool(TRUE)>> >>))
  ELSE LET json == Parse(reply.text) IN
       IF ~json.ok THEN FailureResponse(Lit("Invalid JSON from WebDAV"))
       ELSE Respond(200, Obj(<< <<"success", Bool(TRUE)>>, <<"data", json.v>> >>))

\* handler, from the settling of its fetch to its response
ProxyResume ==
  /\ UNCHANGED outsideProxy
  /\ pxPc = "replied"
  /\ pxRes' = ResponseAfter(Get(pxReq.body, "action"), pxReply)
  /\ pxPc' = "done"
  /\ UNCHANGED <<pxReq, pxOut, pxReply, pxMark, davFile>>

\* any client sends any request
ProxyHandleAny ==
  /\ UNCHANGED outsideProxy
  /\ \E req \in ProxyRequests : ProxyHandle(req)

\* another client of the WebDAV server writes or removes the file
DavExternalWrite ==
  /\ UNCHANGED outsideProxy
  /\ pxPc \in {"idle", "done"}
  /\ \E f \in RemoteFiles : f # davFile /\ davFile' = f
  /\ UNCHANGED <<pxReq, pxPc, pxOut, pxReply, pxRes, pxMark>>

\* remember the invocation that has just ended, to compare later ones with it
MarkRun ==
  /\ UNCHANGED outsideProxy
  /\ pxPc = "done" /\ ~pxMark.set
  /\ pxMark' = [set |-> TRUE, later |-> "none", req |-> pxReq, reply |-> pxReply, res |-> pxRes]
  /\ UNCHANGED <<pxReq, pxPc, pxOut, pxReply, pxRes, davFile>>

ProxyIdle ==
  /\ pxReq = NoReq
  /\ pxPc = "idle"
  /\ pxOut = <<>>
  /\ pxReply = NoReply
  /\ pxRes = NoRes
  /\ pxMark = NoMark
  /\ davFile = NoFile

ProxyStart ==
  /\ pxReq = NoReq
  /\ pxPc = "idle"
  /\ pxOut = <<>>
  /\ pxReply = NoReply
  /\ pxRes = NoRes
  /\ pxMark = NoMark
  /\ davFile \in RemoteFiles

NextProxy ==
  \/ ProxyHandleAny
  \/ ServerReplies
  \/ ProxyResume
  \/ DavExternalWrite
  \/ MarkRun


(***************************************************************************)
(* Practice workflow.                                                      *)
(***************************************************************************)
INPUT_SOURCE == "INPUT_SOURCE"
TRANSLATING_TO_TARGET == "TRANSLATING_TO_TARGET"
PRACTICE_BACK_TRANSLATION == "PRACTICE_BACK_TRANSLATION"
ANALYZING == "ANALYZING"
RESULTS == "RESULTS"

AppStep == {INPUT_SOURCE, TRANSLATING_TO_TARGET, PRACTICE_BACK_TRANSLATION,
            ANALYZING, RESULTS}

ErrTranslate == "Failed to generate translation. Please check your configuration and connection."
ErrAnalyze == "Failed to analyze your translation. Check your configuration."

\* no call in flight; a call in flight holds the sourceText and backTranslation
\* of the render its handler was created in
NoCall == [fn |-> "none", state |-> "none", text |-> <<>>, result |-> NullObj,
           source |-> <<>>, back |-> <<>>]

\* what generateTargetTranslation can resolve to
Translations == {<<>>, <<"a">>}

\* what analyzeBackTranslation can resolve to: JSON.parse of the provider's
\* text is cast to AnalysisResult unchecked, so it may be a result object or
\* the value null
AnalysisReplies ==
  {[kind |-> "result", score |-> 0, summary |-> <<"a">>],
   [kind |-> "result", score |-> 1, summary |-> <<>>],
   NullObj}

NoGen == [state |-> "none", text |-> <<>>]

\* what generatePracticeContent can resolve to: the OpenAI path returns the
\* provider's content or "", the Gemini path a non-empty text
GeneratedTexts == {<<>>, <<"a">>}

ErrGenerate == "Failed to generate random content. Check your AI settings."

RECURSIVE Digits(_)
\* Number.prototype.toString for a non-negative integer
Digits(n) ==
  IF n < 10 THEN <<n>> ELSE Append(Digits(n \div 10), n % 10)

WorkflowStart ==
  /\ step = INPUT_SOURCE
  /\ sourceText = <<>>
  /\ translatedText = <<>>
  /\ backTranslation = <<>>
  /\ analysis = NullObj
  /\ error = Null
  /\ wfCall = NoCall
  /\ wfHistory = <<>>
  /\ genCall = NoGen
  /\ now = 0
  /\ lastOp = "init"

\* the source textarea of renderInputSource
TypeSourceText ==
  /\ UNCHANGED outsideWorkflow
  /\ step = INPUT_SOURCE
  /\ \E t \in Texts : sourceText' = t
  /\ lastOp' = "typeSource"
  /\ UNCHANGED <<step, translatedText, backTranslation, analysis, error,
                 wfCall, wfHistory, genCall, now>>

\* the textarea of renderPractice
TypeBackTranslation ==
  /\ UNCHANGED outsideWorkflow
  /\ step = PRACTICE_BACK_TRANSLATION
  /\ \E t \in Texts : backTranslation' = t
  /\ lastOp' = "typeBack"
  /\ UNCHANGED <<step, sourceText, translatedText, analysis, error,
                 wfCall, wfHistory, genCall, now>>

\* a guard that tests the text without trimming it
StartGuardNoTrim(text) == text = <<>>

\* the guard of handleStartPractice: !sourceText.trim()
StartGuardBlank(text) == IsBlank(text)

\* handleStartPractice up to its await
handleStartPractice ==
  /\ UNCHANGED outsideWorkflow
  /\ step = INPUT_SOURCE
  /\ lastOp' = "startPractice"
  /\ IF StartGuardBlank(sourceText)
     THEN UNCHANGED <<step, error, wfCall>>
     ELSE /\ error' = Null
          /\ step' = TRANSLATING_TO_TARGET
          /\ wfCall' = [NoCall EXCEPT !.fn = "translate", !.state = "pending",
                                      !.source = sourceText]
  /\ UNCHANGED <<sourceText, translatedText, backTranslation, analysis,
                 wfHistory, genCall, now>>

\* generateTargetTranslation settles: it resolves with a translation or throws
ProviderSettlesTranslation ==
  /\ UNCHANGED outsideWorkflow
  /\ wfCall.fn = "translate" /\ wfCall.state = "pending"
  /\ \/ \E t \in Translations : wfCall' = [wfCall EXCEPT !.state = "ok", !.text = t]
     \/ wfCall' = [wfCall EXCEPT !.state = "fail"]
  /\ lastOp' = "translateSettled"
  /\ UNCHANGED <<step, sourceText, translatedText, backTranslation, analysis,
                 error, wfHistory, genCall, now>>

\* the step handleStartPractice sets once the translation has settled
StepAfterTranslation(state) ==
  IF state = "ok" THEN PRACTICE_BACK_TRANSLATION ELSE INPUT_SOURCE

\* handleStartPractice after its await
StartPracticeResume ==
  /\ UNCHANGED outsideWorkflow
  /\ wfCall.fn = "translate" /\ wfCall.state \in {"ok", "fail"}
  /\ step' = StepAfterTranslation(wfCall.state)
  /\ IF wfCall.state = "ok"
     THEN translatedText' = wfCall.text /\ UNCHANGED error
     ELSE error' = ErrTranslate /\ UNCHANGED translatedText
  /\ wfCall' = NoCall
  /\ lastOp' = IF wfCall.state = "ok" THEN "translateOk" ELSE "translateFailed"
  /\ UNCHANGED <<sourceText, backTranslation, analysis, wfHistory, genCall, now>>

\* handleSubmitBackTranslation up to its await
handleSubmitBackTranslation ==
  /\ UNCHANGED outsideWorkflow
  /\ step = PRACTICE_BACK_TRANSLATION
  /\ Len(wfHistory) < MaxHistory
  /\ lastOp' = "submit"
  /\ IF IsBlank(backTranslation)
     THEN UNCHANGED <<step, error, wfCall>>
     ELSE /\ error' = Null
          /\ step' = ANALYZING
          /\ wfCall' = [NoCall EXCEPT !.fn = "analyze", !.state = "pending",
                                      !.source = sourceText, !.back = backTranslation]
  /\ UNCHANGED <<sourceText, translatedText, backTranslation, analysis,
                 wfHistory, genCall, now>>

\* analyzeBackTranslation settles
ProviderSettlesAnalysis ==
  /\ UNCHANGED outsideWorkflow
  /\ wfCall.fn = "analyze" /\ wfCall.state = "pending"
  /\ \/ \E r \in AnalysisReplies : wfCall' = [wfCall EXCEPT !.state = "ok", !.result = r]
     \/ wfCall' = [wfCall EXCEPT !.state = "fail"]
  /\ lastOp' = "analysisSettled"
  /\ UNCHANGED <<step, sourceText, translatedText, backTranslation, analysis,
                 error, wfHistory, genCall, now>>

\* an item built from the texts the state holds when the call returns
NewHistoryItemOfState(result, t) ==
  [id |-> Digits(t), sourceText |-> sourceText,
   userBackTranslation |-> backTranslation,
   score |-> result.score, summary |-> result.summary, timestamp |-> t]

\* the item addToHistory builds at time t: addToHistory is the one of the
\* render in which the handler was created, and so are its sourceText and
\* backTranslation
NewHistoryItem(result, t) ==
  [id |-> Digits(t), sourceText |-> wfCall.source,
   userBackTranslation |-> wfCall.back,
   score |-> result.score, summary |-> result.summary, timestamp |-> t]

\* handleSubmitBackTranslation after its await.  addToHistory(result) reads
\* result.score, which throws for null inside the try block, after
\* setAnalysis(result).
SubmitResume ==
  /\ UNCHANGED outsideWorkflow
  /\ wfCall.fn = "analyze" /\ wfCall.state \in {"ok", "fail"}
  /\ wfCall' = NoCall
  /\ IF wfCall.state = "ok" /\ wfCall.result # NullObj
     THEN /\ analysis' = wfCall.result
          /\ \E t \in now..MaxClock :
               /\ now' = t
               /\ wfHistory' = <<NewHistoryItem(wfCall.result, t)>> \o wfHistory
          /\ step' = RESULTS
          /\ lastOp' = "analysisOk"
          /\ UNCHANGED <<error, genCall>>
     ELSE /\ analysis' = IF wfCall.state = "ok" THEN wfCall.result ELSE analysis
          /\ error' = ErrAnalyze
          /\ step' = PRACTICE_BACK_TRANSLATION
          /\ lastOp' = "analysisFailed"
          /\ UNCHANGED <<wfHistory, genCall, now>>
  /\ UNCHANGED <<sourceText, translatedText, backTranslation>>

\* handleGenerateRandomText up to its await; the button is rendered by
\* renderInputSource and disabled while isGeneratingContent
handleGenerateRandomText ==
  /\ UNCHANGED outsideWorkflow
  /\ step = INPUT_SOURCE
  /\ genCall.state = "none"
  /\ genCall' = [NoGen EXCEPT !.state = "pending"]
  /\ error' = Null
  /\ lastOp' = "generate"
  /\ UNCHANGED <<step, sourceText, translatedText, backTranslation, analysis,
                 wfCall, wfHistory, now>>

\* generatePracticeContent settles
ProviderSettlesGeneration ==
  /\ UNCHANGED outsideWorkflow
  /\ genCall.state = "pending"
  /\ \/ \E t \in GeneratedTexts : genCall' = [state |-> "ok", text |-> t]
     \/ genCall' = [genCall EXCEPT !.state = "fail"]
  /\ lastOp' = "generationSettled"
  /\ UNCHANGED <<step, sourceText, translatedText, backTranslation, analysis,
                 error, wfCall, wfHistory, now>>

\* handleGenerateRandomText after its await, at whatever step the workflow
\* has reached meanwhile
GenerateResume ==
  /\ UNCHANGED outsideWorkflow
  /\ genCall.state \in {"ok", "fail"}
  /\ IF genCall.state = "ok"
     THEN sourceText' = genCall.text /\ UNCHANGED error
     ELSE error' = ErrGenerate /\ UNCHANGED sourceText
  /\ genCall' = NoGen
  /\ lastOp' = "generated"
  /\ UNCHANGED <<step, translatedText, backTranslation, analysis,
                 wfCall, wfHistory, now>>

\* "Start New" of renderResults
handleReset ==
  /\ UNCHANGED outsideWorkflow
  /\ step = RESULTS
  /\ step' = INPUT_SOURCE
  /\ sourceText' = <<>>
  /\ translatedText' = <<>>
  /\ backTranslation' = <<>>
  /\ analysis' = NullObj
  /\ error' = Null
  /\ lastOp' = "reset"
  /\ UNCHANGED <<wfCall, wfHistory, genCall, now>>

\* "Retry Same Text" of renderResults
handleTryAgainSameText ==
  /\ UNCHANGED outsideWorkflow
  /\ step = RESULTS
  /\ step' = PRACTICE_BACK_TRANSLATION
  /\ backTranslation' = <<>>
  /\ analysis' = NullObj
  /\ error' = Null
  /\ lastOp' = "tryAgain"
  /\ UNCHANGED <<sourceText, translatedText, wfCall, wfHistory, genCall, now>>

NextWorkflow ==
  \/ TypeSourceText
  \/ TypeBackTranslation
  \/ handleStartPractice
  \/ ProviderSettlesTranslation
  \/ StartPracticeResume
  \/ handleSubmitBackTranslation
  \/ ProviderSettlesAnalysis
  \/ SubmitResume
  \/ handleGenerateRandomText
  \/ ProviderSettlesGeneration
  \/ GenerateResume
  \/ handleReset
  \/ handleTryAgainSameText

\* the analysis call the workflow awaits has produced a usable result
AnalysisSucceeded ==
  wfCall.fn = "analyze" /\ wfCall.state = "ok" /\ wfCall.result # NullObj

\* the analysis call the workflow awaits has failed: it threw, or its result
\* cannot be used
AnalysisFailed ==
  wfCall.fn = "analyze" /\ (wfCall.state = "fail" \/ (wfCall.state = "ok" /\ wfCall.result = NullObj))

\* C1: the step changes only along INPUT_SOURCE -> TRANSLATING_TO_TARGET (from
\* a non-blank source text) -> PRACTICE_BACK_TRANSLATION (translation
\* succeeded) -> ANALYZING (non-blank back-translation) -> RESULTS (analysis
\* succeeded), or back by a failed call, Retry Same Text or Start New; a
\* start or submit with blank input changes neither the step nor the call in
\* flight
C1_WorkflowOrder ==
  [][ /\ step' # step =>
          \/ /\ step = INPUT_SOURCE /\ step' = TRANSLATING_TO_TARGET
             /\ Trim(sourceText) # <<>>
             /\ wfCall = NoCall /\ wfCall'.fn = "translate" /\ wfCall'.state = "pending"
          \/ /\ step = TRANSLATING_TO_TARGET /\ step' = PRACTICE_BACK_TRANSLATION
             /\ wfCall.fn = "translate" /\ wfCall.state = "ok"
          \/ /\ step = TRANSLATING_TO_TARGET /\ step' = INPUT_SOURCE
             /\ wfCall.fn = "translate" /\ wfCall.state = "fail"
          \/ /\ step = PRACTICE_BACK_TRANSLATION /\ step' = ANALYZING
             /\ Trim(backTranslation) # <<>>
             /\ wfCall = NoCall /\ wfCall'.fn = "analyze" /\ wfCall'.state = "pending"
          \/ /\ step = ANALYZING /\ step' = RESULTS
             /\ AnalysisSucceeded
          \/ /\ step = ANALYZING /\ step' = PRACTICE_BACK_TRANSLATION
             /\ AnalysisFailed
          \/ /\ step = RESULTS /\ step' = PRACTICE_BACK_TRANSLATION
             /\ lastOp' = "tryAgain"
          \/ /\ step = RESULTS /\ step' = INPUT_SOURCE
             /\ lastOp' = "reset"
      /\ (lastOp' = "startPractice" /\ Trim(sourceText) = <<>>) =>
            (step' = step /\ wfCall' = wfCall)
      /\ (lastOp' = "submit" /\ Trim(backTranslation) = <<>>) =>
            (step' = step /\ wfCall' = wfCall)
      /\ (wfCall' # wfCall /\ wfCall'.state = "pending") =>
            (step' # step /\ step' \in {TRANSLATING_TO_TARGET, ANALYZING})
    ]_vars

\* C1 witness: a practice went through every step to its results
C1_Witness ==
  step = RESULTS /\ lastOp = "analysisOk" /\ wfHistory # <<>>

\* C1 witness of the blank case: Start was invoked on a whitespace-only text
C1_BlankStart ==
  lastOp = "startPractice" /\ sourceText = <<" ">> /\ step = INPUT_SOURCE

\* the call in flight has settled and this step is its handler's resumption
ResumesCall == wfCall.state \in {"ok", "fail"} /\ wfCall' = NoCall

C13_WitnessFailed ==
  /\ lastOp = "analysisFailed" /\ analysis = NullObj /\ error = ErrAnalyze
  /\ step = PRACTICE_BACK_TRANSLATION /\ wfHistory = <<>> /\ backTranslation # <<>>

(***************************************************************************)
(* App: history, vocabulary, settings and their copies in localStorage.    *)
(***************************************************************************)
\* history items; HistoryOneOther has the id of HistoryOne and other content
HistoryOne == Obj(<< <<"id", Str(<<"1">>)>>, <<"score", Num(0)>> >>)
HistoryTwo == Obj(<< <<"id", Str(<<"2">>)>>, <<"score", Num(1)>> >>)
HistoryOneOther == Obj(<< <<"id", Str(<<"1">>)>>, <<"score", Num(1)>> >>)

\* vocabulary items; the improvement VocabOne was saved from had no meaning,
\* and VocabOneRead is VocabOne as it is read back from JSON
VocabOne == Obj(<< <<"id", Str(<<"1">>)>>, <<"original", Str(<<"b">>)>>,
                   <<"better", Str(<<"a">>)>>, <<"meaning", Undef>> >>)
VocabOneRead == Obj(<< <<"id", Str(<<"1">>)>>, <<"original", Str(<<"b">>)>>,
                       <<"better", Str(<<"a">>)>> >>)
VocabTwo == Obj(<< <<"id", Str(<<"2">>)>>, <<"original", Str(<<"A">>)>>,
                   <<"better", Str(<<"a">>)>>, <<"meaning", Str(<<"a">>)>> >>)

\* the items addToHistory and addToVocabulary can build
NewHistoryItems == {HistoryOne, HistoryTwo}
NewVocabItems == {VocabOne, VocabTwo}

Ids(list) == {Get(list[i], "id") : i \in 1..Len(list)}

NoDuplicateIds(list) ==
  \A i, j \in 1..Len(list) : Get(list[i], "id") = Get(list[j], "id") => i = j

\* an import that keeps every imported item
MergeAll(imported, prev) == imported \o prev

\* the updater of handleImportData: the imported items whose id no item of
\* prev has, then prev
MergeById(imported, prev) ==
  SelectSeq(imported, LAMBDA h : Get(h, "id") \notin Ids(prev)) \o prev

DefaultModel == Lit("gemini-2.5-flash")

DEFAULT_CONFIG ==
  Obj(<< <<"useCustom", Bool(FALSE)>>,
         <<"selectedPresetId", DefaultModel>>,
         <<"customBaseUrl", Str(<<>>)>>,
         <<"customApiKey", Str(<<>>)>>,
         <<"customModelName", DefaultModel>>,
         <<"provider", Lit("gemini")>> >>)

PRESET_MODELS == {Lit("gemini-2.5-flash"), Lit("gemini-3-pro-preview")}

RECURSIVE PutAll(_, _)
\* { ...base, ...over } on the pairs of two objects
PutAll(base, over) ==
  IF over = <<>> THEN base
  ELSE PutAll(Put(base, Head(over)[1], Head(over)[2]), Tail(over))

\* { ...prev, key: val }
With(config, key, val) == Obj(Put(config.o, key, val))

NoEntry == [present |-> FALSE, text |-> <<>>]
Entry(text) == [present |-> TRUE, text |-> text]

\* a config saved by a version that had no provider, with a custom connection
OldCustomConfig ==
  Obj(<< <<"useCustom", Bool(TRUE)>>, <<"selectedPresetId", DefaultModel>>,
         <<"customApiKey", Str(<<"k">>)>> >>)

\* what localStorage can hold when the app starts
StoredHistories ==
  {NoEntry, Entry(<<TokJunk>>), Entry(Stringify(Arr(<<HistoryTwo, HistoryOne>>)))}
StoredVocabularies ==
  {NoEntry, Entry(Stringify(Arr(<<VocabOneRead>>)))}
StoredConfigs ==
  {NoEntry, Entry(Stringify(JNull)), Entry(Stringify(OldCustomConfig))}

\* a list that starts empty whatever localStorage holds
InitialEmpty(entry) == <<>>

\* the lazy initialiser of history and of vocabulary:
\* saved ? JSON.parse(saved) : [], and [] when that throws
InitialList(entry) ==
  IF entry.present /\ entry.text # <<>>
  THEN LET r == Parse(entry.text) IN IF r.ok THEN r.v.a ELSE <<>>
  ELSE <<>>

SaveHistory(list) == [name |-> "saveHistory", value |-> Arr(list)]
SaveVocabulary(list) == [name |-> "saveVocabulary", value |-> Arr(list)]
SaveConfig(config) == [name |-> "saveConfig", value |-> config]

\* save effects without the one of the vocabulary
EffectsOnMountOnly(historyChanged, vocabularyChanged, configChanged) ==
  (IF historyChanged THEN <<SaveHistory(history')>> ELSE <<>>)
  \o (IF configChanged THEN <<SaveConfig(aiConfig')>> ELSE <<>>)

\* the save effects React schedules after a render in which these states
\* changed: each effect has its state as its one dependency
EffectsAfter(historyChanged, vocabularyChanged, configChanged) ==
  (IF historyChanged THEN <<SaveHistory(history')>> ELSE <<>>)
  \o (IF vocabularyChanged THEN <<SaveVocabulary(vocabulary')>> ELSE <<>>)
  \o (IF configChanged THEN <<SaveConfig(aiConfig')>> ELSE <<>>)

\* the first render of App: the initialisers of useState run, and every
\* effect is scheduled in the order it is written
Mount ==
  /\ UNCHANGED outsideStore
  /\ phase = "unmounted"
  /\ phase' = "mounted"
  /\ history' = InitialList(storage.echoLoopHistory)
  /\ vocabulary' = InitialList(storage.echoLoopVocabulary)
  /\ aiConfig' = DEFAULT_CONFIG
  /\ settingsTab' = "preset"
  /\ effects' = <<[name |-> "loadConfig", value |-> Undef]>> \o EffectsAfter(TRUE, TRUE, TRUE)
  /\ UNCHANGED <<storage, userActed>>

\* the effect that loads the config: the state it sets is rendered after the
\* effects of the first render have run
LoadConfigEffect ==
  LET saved == storage.echoLoopConfig
      parsed == Parse(saved.text)
  IN  IF saved.present /\ saved.text # <<>> /\ parsed.ok /\ parsed.v.t = "obj"
      THEN LET withProvider ==
                 IF Falsy(Get(parsed.v, "provider"))
                 THEN Put(parsed.v.o, "provider", Lit("gemini")) ELSE parsed.v.o
           IN  <<[name |-> "renderConfig", value |-> Obj(PutAll(DEFAULT_CONFIG.o, withProvider))]>>
      ELSE <<>>

\* React runs the next scheduled effect or render
RunEffect ==
  /\ UNCHANGED outsideStore
  /\ phase = "mounted" /\ effects # <<>>
  /\ LET e == Head(effects) IN
     CASE e.name = "loadConfig" ->
            /\ effects' = Tail(effects) \o LoadConfigEffect
            /\ UNCHANGED <<aiConfig, settingsTab, storage>>
       [] e.name = "renderConfig" ->
            /\ aiConfig' = e.value
            /\ settingsTab' = IF Falsy(Get(e.value, "useCustom")) THEN settingsTab ELSE "custom"
            /\ effects' = Tail(effects) \o EffectsAfter(FALSE, FALSE, TRUE)
            /\ UNCHANGED storage
       [] e.name = "saveHistory" ->
            /\ storage' = [storage EXCEPT !.echoLoopHistory = Entry(Stringify(e.value))]
            /\ effects' = Tail(effects)
            /\ UNCHANGED <<aiConfig, settingsTab>>
       [] e.name = "saveVocabulary" ->
            /\ storage' = [storage EXCEPT !.echoLoopVocabulary = Entry(Stringify(e.value))]
            /\ effects' = Tail(effects)
            /\ UNCHANGED <<aiConfig, settingsTab>>
       [] e.name = "saveConfig" ->
            /\ storage' = [storage EXCEPT !.echoLoopConfig = Entry(Stringify(e.value))]
            /\ effects' = Tail(effects)
            /\ UNCHANGED <<aiConfig, settingsTab>>
  /\ UNCHANGED <<history, vocabulary, phase, userActed>>

\* a handler runs once React has run what the last render scheduled
Settled == phase = "mounted" /\ effects = <<>>

\* toLowerCase on the letters the texts of the items are made of
LowerChar(c) == IF c = "A" THEN "a" ELSE IF c = "B" THEN "b" ELSE c

toLowerCase(text) == [i \in 1..Len(text) |-> LowerChar(text[i])]

\* text.includes(term)
Includes(text, term) ==
  \E i \in 0..Len(text) :
    /\ i + Len(term) <= Len(text)
    /\ SubSeq(text, i + 1, i + Len(term)) = term

\* the test of the filter that makes filteredVocabulary
MatchesSearch(v, term) ==
  \/ Includes(toLowerCase(Get(v, "original").s), toLowerCase(term))
  \/ Includes(toLowerCase(Get(v, "better").s), toLowerCase(term))

Filtered(list, term) == SelectSeq(list, LAMBDA v : MatchesSearch(v, term))

\* a render that leaves reviewIndex as the handlers left it
IndexKept(cards, reviewing, index) == index

\* renderReviewMode: with no card at reviewIndex and a list that is not
\* empty it sets reviewIndex to 0 and the component renders again
IndexRendered(cards, reviewing, index) ==
  IF reviewing /\ index >= Len(cards) /\ Len(cards) > 0 THEN 0 ELSE index

\* LibraryModal renders with the new vocabulary prop before the handler's
\* event is over
LibraryRenders ==
  /\ reviewIndex' = IndexRendered(Filtered(vocabulary', searchTerm), isReviewMode, reviewIndex)
  /\ UNCHANGED <<searchTerm, isReviewMode, isFlipped, reviewInput>>

\* addToHistory: the id is Date.now(), which no earlier item has
addToHistory ==
  /\ UNCHANGED outsideStore
  /\ Settled
  /\ \E item \in NewHistoryItems :
       /\ Get(item, "id") \notin Ids(history)
       /\ history' = <<item>> \o history
  /\ effects' = EffectsAfter(TRUE, FALSE, FALSE)
  /\ userActed' = TRUE
  /\ UNCHANGED <<vocabulary, aiConfig, settingsTab, storage, phase>>

deleteHistory ==
  /\ UNCHANGED outsideStore
  /\ Settled
  /\ \E id \in Ids(history) :
       history' = SelectSeq(history, LAMBDA h : Get(h, "id") # id)
  /\ effects' = EffectsAfter(TRUE, FALSE, FALSE)
  /\ userActed' = TRUE
  /\ UNCHANGED <<vocabulary, aiConfig, settingsTab, storage, phase>>

addToVocabulary ==
  /\ UNCHANGED outsideLists
  /\ Settled
  /\ \E item \in NewVocabItems :
       /\ Get(item, "id") \notin Ids(vocabulary)
       /\ vocabulary' = <<item>> \o vocabulary
  /\ effects' = EffectsAfter(FALSE, TRUE, FALSE)
  /\ userActed' = TRUE
  /\ UNCHANGED <<history, aiConfig, settingsTab, storage, phase>>
  /\ LibraryRenders

deleteVocabulary ==
  /\ UNCHANGED outsideLists
  /\ Settled
  /\ \E id \in Ids(vocabulary) :
       vocabulary' = SelectSeq(vocabulary, LAMBDA v : Get(v, "id") # id)
  /\ effects' = EffectsAfter(FALSE, TRUE, FALSE)
  /\ userActed' = TRUE
  /\ UNCHANGED <<history, aiConfig, settingsTab, storage, phase>>
  /\ LibraryRenders

\* handleImportData(importedHistory, importedVocabulary)
handleImportData(importedHistory, importedVocabulary) ==
  /\ history' = MergeById(importedHistory, history)
  /\ vocabulary' = MergeById(importedVocabulary, vocabulary)

\* the backup files a user can pick: a backup with two history items of one
\* id, a backup of another device, an object that is no backup, no JSON
BackupFiles ==
  {Stringify(Obj(<< <<"history", Arr(<<HistoryOne, HistoryOneOther>>)>>,
                    <<"vocabulary", Arr(<<VocabOneRead, VocabOneRead>>)>> >>)),
   StringifyIndented(Obj(<< <<"history", Arr(<<HistoryTwo>>)>>,
                            <<"vocabulary", Arr(<<VocabTwo>>)>>,
                            <<"version", Lit("1.0")>> >>)),
   Stringify(Obj(<< <<"history", Arr(<<>>)>> >>)),
   <<TokJunk>>}

\* data.history && Array.isArray(data.history) && data.vocabulary &&
\* Array.isArray(data.vocabulary)
IsBackup(data) ==
  /\ ~Falsy(data)
  /\ IsArray(Get(data, "history"))
  /\ IsArray(Get(data, "vocabulary"))

\* reader.onload of handleFileChange, with onImportData = handleImportData
handleFileChange ==
  /\ UNCHANGED outsideLists
  /\ Settled
  /\ \E content \in BackupFiles :
       LET data == Parse(content) IN
       IF data.ok /\ IsBackup(data.v)
       THEN /\ handleImportData(Get(data.v, "history").a, Get(data.v, "vocabulary").a)
            /\ effects' = EffectsAfter(TRUE, TRUE, FALSE)
            /\ userActed' = TRUE
       ELSE /\ UNCHANGED <<history, vocabulary, effects>>
            /\ userActed' = TRUE
  /\ UNCHANGED <<aiConfig, settingsTab, storage, phase>>
  /\ LibraryRenders

\* the "Preset Models" tab of the settings
SelectPresetTab ==
  /\ UNCHANGED outsideSettings
  /\ Settled
  /\ settingsTab' = "preset"
  /\ connectionStatus' = "idle"
  /\ aiConfig' = With(aiConfig, "useCustom", Bool(FALSE))
  /\ effects' = EffectsAfter(FALSE, FALSE, TRUE)
  /\ userActed' = TRUE
  /\ UNCHANGED <<history, vocabulary, storage, phase>>

\* the "Custom Connection" tab of the settings
SelectCustomTab ==
  /\ UNCHANGED outsideSettings
  /\ Settled
  /\ settingsTab' = "custom"
  /\ connectionStatus' = "idle"
  /\ aiConfig' = With(With(aiConfig, "useCustom", Bool(TRUE)), "customModelName",
                      IF Falsy(Get(aiConfig, "customModelName"))
                      THEN DefaultModel ELSE Get(aiConfig, "customModelName"))
  /\ effects' = EffectsAfter(FALSE, FALSE, TRUE)
  /\ userActed' = TRUE
  /\ UNCHANGED <<history, vocabulary, storage, phase>>

\* the values a settings field is edited to
FieldValues ==
  [selectedPresetId |-> PRESET_MODELS,
   provider |-> {Lit("gemini"), Lit("openai")},
   customBaseUrl |-> {Str(<<>>), Str(<<"u">>)},
   customApiKey |-> {Str(<<>>), Str(<<"k">>)},
   customModelName |-> {Str(<<>>), DefaultModel}]

\* the inputs whose onChange also sets connectionStatus to 'idle'
TextFields == {"customBaseUrl", "customApiKey", "customModelName"}

\* a preset model, a provider, or a field of the custom connection is set;
\* the preset list shows on the preset tab and the rest on the custom tab
EditSetting ==
  /\ UNCHANGED outsideSettings
  /\ Settled
  /\ \E key \in DOMAIN FieldValues : \E val \in FieldValues[key] :
       /\ (key = "selectedPresetId") <=> (settingsTab = "preset")
       /\ aiConfig' = With(aiConfig, key, val)
       /\ connectionStatus' = IF key \in TextFields THEN "idle" ELSE connectionStatus
  /\ effects' = EffectsAfter(FALSE, FALSE, TRUE)
  /\ userActed' = TRUE
  /\ UNCHANGED <<history, vocabulary, settingsTab, storage, phase>>

StoreStart ==
  /\ phase = "unmounted"
  /\ history = <<>>
  /\ vocabulary = <<>>
  /\ aiConfig = DEFAULT_CONFIG
  /\ settingsTab = "preset"
  /\ effects = <<>>
  /\ userActed = FALSE
  /\ storage \in [echoLoopHistory : StoredHistories,
                  echoLoopVocabulary : StoredVocabularies,
                  echoLoopConfig : StoredConfigs]

StoreIdle ==
  /\ phase = "unmounted"
  /\ history = <<>>
  /\ vocabulary = <<>>
  /\ aiConfig = DEFAULT_CONFIG
  /\ settingsTab = "preset"
  /\ effects = <<>>
  /\ userActed = FALSE
  /\ storage = [echoLoopHistory |-> NoEntry, echoLoopVocabulary |-> NoEntry,
                echoLoopConfig |-> NoEntry]

NextStore ==
  \/ Mount
  \/ RunEffect
  \/ addToHistory
  \/ deleteHistory
  \/ addToVocabulary
  \/ deleteVocabulary
  \/ handleFileChange
  \/ SelectPresetTab
  \/ SelectCustomTab
  \/ EditSetting

(***************************************************************************)
(* LibraryModal: push and pull through the proxy.  One sync is in flight   *)
(* at a time.                                                              *)
(***************************************************************************)
WebDavConfig(enabled, url, username, password) ==
  Obj(<< <<"enabled", Bool(enabled)>>, <<"url", Str(url)>>,
         <<"username", Str(username)>>, <<"password", Str(password)>> >>)

\* the values of the webdavConfig prop: not passed, complete, switched off,
\* without a password
WebDavConfigs ==
  {Undef,
   WebDavConfig(TRUE, <<"u">>, <<"a">>, <<"b">>),
   WebDavConfig(FALSE, <<"u">>, <<"a">>, <<"b">>),
   WebDavConfig(TRUE, <<"u">>, <<"a">>, <<>>)}

\* a check of the configuration that does not look at the password
canUseWebDavNoPassword ==
  /\ ~Falsy(webdavConfig)
  /\ ~Falsy(Get(webdavConfig, "enabled"))
  /\ ~Falsy(Get(webdavConfig, "url"))
  /\ ~Falsy(Get(webdavConfig, "username"))

\* webdavConfig?.enabled && webdavConfig.url && webdavConfig.username &&
\* webdavConfig.password
canUseWebDav ==
  /\ ~Falsy(webdavConfig)
  /\ ~Falsy(Get(webdavConfig, "enabled"))
  /\ ~Falsy(Get(webdavConfig, "url"))
  /\ ~Falsy(Get(webdavConfig, "username"))
  /\ ~Falsy(Get(webdavConfig, "password"))

NoSyncCall == [kind |-> "none", state |-> "none", payload |-> Undef]
NothingPushed == [set |-> FALSE, acked |-> FALSE, history |-> <<>>, vocabulary |-> <<>>]

\* new Date().toISOString()
ExportDate == Lit("2025-01-01T00:00:00.000Z")

PayloadWebDav ==
  Obj(<< <<"url", Get(webdavConfig, "url")>>,
         <<"username", Get(webdavConfig, "username")>>,
         <<"password", Get(webdavConfig, "password")>> >>)

PushPayload ==
  Obj(<< <<"action", Lit("push")>>,
         <<"webdav", PayloadWebDav>>,
         <<"data", Obj(<< <<"history", Arr(history)>>,
                          <<"vocabulary", Arr(vocabulary)>>,
                          <<"exportDate", ExportDate>>,
                          <<"version", Lit("1.0")>> >>)>> >>)

PullPayload ==
  Obj(<< <<"action", Lit("pull")>>, <<"webdav", PayloadWebDav>> >>)

\* window.confirm returned false, returned true
ConfirmDeclined == "declined"
ConfirmAccepted == "confirmed"
AlertNotConfigured == "WebDAV is not fully configured. Please check settings."
AlertPushed == "Synced to WebDAV successfully."
AlertPushFailed == "Failed to sync to WebDAV. Please check your settings and network."
AlertPulled == "Synced from WebDAV successfully."
AlertInvalidFile == "Invalid WebDAV file format."
AlertPullFailed == "Failed to sync from WebDAV. Please check your settings and network."

\* handleSyncUpload and handleSyncDownload, from the click to the fetch
SyncStart(kind, confirmed) ==
  /\ Settled /\ syCall = NoSyncCall
  /\ IF ~confirmed
     THEN /\ syAlert' = ConfirmDeclined
          /\ UNCHANGED <<syCall, syPushed, syCount>>
     ELSE IF ~canUseWebDav
     THEN /\ syAlert' = AlertNotConfigured
          /\ UNCHANGED <<syCall, syPushed, syCount>>
     ELSE /\ syCount < MaxSyncs
          /\ syCount' = syCount + 1
          /\ syCall' = [kind |-> kind, state |-> "sent",
                        payload |-> IF kind = "push" THEN PushPayload ELSE PullPayload]
          /\ syPushed' = IF kind = "push"
                         THEN [set |-> TRUE, acked |-> FALSE,
                               history |-> history, vocabulary |-> vocabulary]
                         ELSE syPushed
          /\ syAlert' = ConfirmAccepted
  /\ UNCHANGED <<webdavConfig, dataVars, stVars, pxVars>>

handleSyncUpload ==
  /\ UNCHANGED outsideSync
  /\ \E confirmed \in BOOLEAN : SyncStart("push", confirmed)

handleSyncDownload ==
  /\ UNCHANGED outsideSync
  /\ \E confirmed \in BOOLEAN : SyncStart("pull", confirmed)

\* the proxy receives the POST whose body is JSON.stringify(payload)
ProxyReceives ==
  /\ UNCHANGED outsideSync
  /\ syCall.state = "sent"
  /\ ProxyHandle([method |-> "POST", body |-> Parse(Stringify(syCall.payload)).v])
  /\ syCall' = [syCall EXCEPT !.state = "received"]
  /\ UNCHANGED <<webdavConfig, syAlert, syPushed, syCount, dataVars, stVars>>

FailureAlert(kind) == IF kind = "push" THEN AlertPushFailed ELSE AlertPullFailed

\* the fetch of the client rejects: the catch block alerts
SyncFetchFails ==
  /\ UNCHANGED outsideSync
  /\ syCall.state = "sent"
  /\ syAlert' = FailureAlert(syCall.kind)
  /\ syCall' = NoSyncCall
  /\ syPushed' = IF syCall.kind = "push" THEN NothingPushed ELSE syPushed
  /\ UNCHANGED <<webdavConfig, syCount, dataVars, stVars, pxVars>>

\* response.ok
ResponseOk(res) == res.status \in 200..299

\* json.data of the response of a pull; Undef when the body is no JSON
PulledData(res) ==
  LET json == Parse(res.body) IN IF json.ok THEN Get(json.v, "data") ELSE Undef

\* handleSyncUpload and handleSyncDownload, from the response of the proxy on
SyncResume ==
  /\ UNCHANGED outsidePull
  /\ Settled
  /\ syCall.state = "received" /\ pxPc = "done"
  /\ syCall' = NoSyncCall
  /\ IF ~ResponseOk(pxRes)
     THEN /\ syAlert' = FailureAlert(syCall.kind)
          /\ syPushed' = IF syCall.kind = "push" THEN NothingPushed ELSE syPushed
          /\ UNCHANGED <<dataVars, effects, userActed>>
     ELSE IF syCall.kind = "push"
     THEN /\ syAlert' = AlertPushed
          /\ syPushed' = [syPushed EXCEPT !.acked = TRUE]
          /\ UNCHANGED <<dataVars, effects, userActed>>
     ELSE IF ~Parse(pxRes.body).ok
     THEN /\ syAlert' = AlertPullFailed
          /\ UNCHANGED <<syPushed, dataVars, effects, userActed>>
     ELSE IF IsBackup(PulledData(pxRes))
     THEN /\ handleImportData(Get(PulledData(pxRes), "history").a,
                              Get(PulledData(pxRes), "vocabulary").a)
          /\ effects' = EffectsAfter(TRUE, TRUE, FALSE)
          /\ userActed' = TRUE
          /\ syAlert' = AlertPulled
          /\ UNCHANGED syPushed
     ELSE /\ syAlert' = AlertInvalidFile
          /\ UNCHANGED <<syPushed, dataVars, effects, userActed>>
  /\ UNCHANGED <<webdavConfig, syCount, aiConfig, settingsTab, storage, phase, pxVars>>
  /\ LibraryRenders

SyncIdle ==
  /\ webdavConfig = Undef
  /\ syCall = NoSyncCall
  /\ syAlert = "none"
  /\ syPushed = NothingPushed
  /\ syCount = 0

SyncStartState ==
  /\ webdavConfig \in WebDavConfigs
  /\ syCall = NoSyncCall
  /\ syAlert = "none"
  /\ syPushed = NothingPushed
  /\ syCount = 0

\* the user edits the vocabulary between syncs; the history changes by pulls
NextSync ==
  \/ Mount
  \/ RunEffect
  \/ addToVocabulary
  \/ deleteVocabulary
  \/ handleSyncUpload
  \/ handleSyncDownload
  \/ ProxyReceives
  \/ SyncFetchFails
  \/ ServerReplies
  \/ ProxyResume
  \/ SyncResume
  \/ DavExternalWrite

(***************************************************************************)
(* The AI service: testConnection and the four functions that delegate to  *)
(* the provider.                                                           *)
(***************************************************************************)
\* process.env.API_KEY
EnvApiKey == Lit("process.env.API_KEY")

ChatPath ==
  <<"/", "c", "h", "a", "t", "/", "c", "o", "m", "p", "l", "e", "t", "i", "o", "n", "s">>

RECURSIVE StripSlashes(_)
\* s.replace(/\/+$/, "")
StripSlashes(s) ==
  IF s # <<>> /\ s[Len(s)] = "/" THEN StripSlashes(SubSeq(s, 1, Len(s) - 1)) ELSE s

EndsWith(s, suffix) ==
  /\ Len(s) >= Len(suffix)
  /\ SubSeq(s, Len(s) - Len(suffix) + 1, Len(s)) = suffix

\* v && v.trim() !== ''
NotBlank(v) == ~Falsy(v) /\ ("s" \in DOMAIN v => ~IsBlank(v.s))

\* v.trim()
TrimValue(v) == IF "s" \in DOMAIN v THEN Str(Trim(v.s)) ELSE v

\* the configs App passes: the fields are the ones of DEFAULT_CONFIG, the
\* custom ones hold what the user typed
AIConfigs ==
  {Obj(<< <<"useCustom", Bool(useCustom)>>,
          <<"selectedPresetId", preset>>,
          <<"customBaseUrl", Str(baseUrl)>>,
          <<"customApiKey", Str(apiKey)>>,
          <<"customModelName", modelName>>,
          <<"provider", provider>> >>) :
     useCustom \in BOOLEAN,
     preset \in PRESET_MODELS,
     baseUrl \in {<<>>, <<" ">>, <<"u">>, <<"u", "/", "/">>, <<"u">> \o ChatPath},
     apiKey \in {<<>>, <<" ">>, <<"k">>},
     modelName \in {Str(<<>>), Str(<<" ">>), Str(<<" ", "m">>), DefaultModel},
     provider \in {Lit("gemini"), Lit("openai")}}

\* config.useCustom && config.provider === 'openai'
OpenAIPath(config) ==
  ~Falsy(Get(config, "useCustom")) /\ Get(config, "provider") = Lit("openai")

NoBaseUrl == [set |-> FALSE, s |-> <<>>]

\* the options getGeminiClient builds the client with
getGeminiClient(config) ==
  [apiKey |-> IF ~Falsy(Get(config, "useCustom")) /\ NotBlank(Get(config, "customApiKey"))
              THEN Get(config, "customApiKey") ELSE EnvApiKey,
   baseUrl |-> IF ~Falsy(Get(config, "useCustom")) /\ NotBlank(Get(config, "customBaseUrl"))
               THEN [set |-> TRUE, s |-> StripSlashes(Trim(Get(config, "customBaseUrl").s))]
               ELSE NoBaseUrl]

\* a model name that is the custom one whenever one is typed
getModelNameAnyMode(config) ==
  IF NotBlank(Get(config, "customModelName"))
  THEN TrimValue(Get(config, "customModelName"))
  ELSE Get(config, "selectedPresetId")

getModelName(config) ==
  IF ~Falsy(Get(config, "useCustom")) /\ NotBlank(Get(config, "customModelName"))
  THEN TrimValue(Get(config, "customModelName"))
  ELSE IF Falsy(Get(config, "selectedPresetId")) THEN DefaultModel
       ELSE Get(config, "selectedPresetId")

ServiceFunctions ==
  {"testConnection", "generateTargetTranslation", "generatePracticeContent",
   "analyzeBackTranslation", "getCoachResponse"}

\* the functions that ask the provider for JSON
JsonFunctions == {"generateTargetTranslation", "analyzeBackTranslation"}

\* ai.models.generateContent of a client built by getGeminiClient
GeminiRequest(fn, config) ==
  [provider |-> "gemini",
   apiKey |-> getGeminiClient(config).apiKey,
   url |-> getGeminiClient(config).baseUrl,
   model |-> getModelName(config),
   json |-> fn \in JsonFunctions]

\* !config.customApiKey || !config.customBaseUrl
OpenAIRefuses(config) ==
  Falsy(Get(config, "customApiKey")) \/ Falsy(Get(config, "customBaseUrl"))

\* the fetch of callOpenAI
OpenAIRequest(fn, config) ==
  LET baseUrl == StripSlashes(Get(config, "customBaseUrl").s) IN
  [provider |-> "openai",
   apiKey |-> Get(config, "customApiKey"),
   url |-> [set |-> TRUE,
            s |-> IF EndsWith(baseUrl, ChatPath) THEN baseUrl ELSE baseUrl \o ChatPath],
   model |-> IF Falsy(Get(config, "customModelName")) THEN Lit("gpt-3.5-turbo")
             ELSE Get(config, "customModelName"),
   json |-> fn \in JsonFunctions]

Returned(value) == [kind |-> "returned", value |-> value]
Threw(message) == [kind |-> "threw", value |-> Lit(message)]
NoResult == [kind |-> "none", value |-> Undef]
NoAiReply == [kind |-> "none", present |-> FALSE, text |-> <<>>]

\* the catch block of each function
Caught(fn) ==
  CASE fn = "testConnection" -> Returned(Bool(FALSE))
    [] fn = "generateTargetTranslation" -> Threw("Failed to generate translation.")
    [] fn = "generatePracticeContent" -> Threw("Failed to generate practice content.")
    [] fn = "analyzeBackTranslation" -> Threw("Failed to analyze text.")
    [] fn = "getCoachResponse" ->
         Returned(Lit("Sorry, I'm having trouble connecting to the server at the moment."))

\* the start or the end of a markdown code block: ```json or ```
TokFence == [k |-> "fence"]

RECURSIVE TrimTokens(_)
TrimTokens(toks) ==
  IF toks # <<>> /\ Head(toks) = TokWs THEN TrimTokens(Tail(toks))
  ELSE IF toks # <<>> /\ toks[Len(toks)] = TokWs
  THEN TrimTokens(SubSeq(toks, 1, Len(toks) - 1))
  ELSE toks

\* jsonString.replace(/```json\n?|```/g, '').trim()
CleanJson(toks) == TrimTokens(SelectSeq(toks, LAMBDA t : t # TokFence))

\* a translation whose one sentence pair has no target
TranslationJson ==
  Obj(<< <<"fullTranslation", Str(<<"a">>)>>,
         <<"sentencePairs", Arr(<<Obj(<< <<"index", Num(1)>>, <<"source", Str(<<"a">>)>> >>)>>)>> >>)

AnalysisJson == Obj(<< <<"score", Num(1)>>, <<"summary", Str(<<"a">>)>> >>)

\* the texts a provider answers a request for JSON with: nothing, no JSON,
\* null, a translation, an analysis in a code block
JsonReplyTexts ==
  {<<>>, <<TokJunk>>, Stringify(JNull), Stringify(TranslationJson),
   <<TokFence>> \o StringifyIndented(AnalysisJson) \o <<TokFence, TokWs>>}

\* how a provider can settle a request: the request fails, the answer is not
\* ok (fetch only; the Gemini client throws instead), the answer has no text,
\* the answer has a text
ProviderReplies(fn, provider) ==
  {[kind |-> "throw", present |-> FALSE, text |-> <<>>],
   [kind |-> "ok", present |-> FALSE, text |-> <<>>]}
  \cup {[kind |-> "notok", present |-> FALSE, text |-> <<>>] : x \in {1} \cap {IF provider = "openai" THEN 1 ELSE 0}}
  \cup {[kind |-> "ok", present |-> TRUE, text |-> t] :
          t \in IF fn \in JsonFunctions THEN JsonReplyTexts ELSE Texts}

\* the split of sourceText into sentences
EnglishSentences == <<Str(<<"a">>)>>

IsNumber(v) == v.t = "num"
IsString(v) == v.t = "str"

\* the object generateTargetTranslation builds from the parsed answer
TranslationOf(parsed) ==
  LET rawPairs == IF IsArray(Get(parsed, "sentencePairs"))
                  THEN Get(parsed, "sentencePairs").a ELSE <<>>
      pair(idx) ==
        LET p == rawPairs[idx] IN
        Obj(<< <<"index", IF IsNumber(Get(p, "index")) THEN Get(p, "index") ELSE Num(idx)>>,
               <<"source", IF IsString(Get(p, "source")) THEN Get(p, "source")
                           ELSE IF idx <= Len(EnglishSentences) THEN EnglishSentences[idx]
                           ELSE Str(<<>>)>>,
               <<"target", IF IsString(Get(p, "target")) THEN Get(p, "target")
                           ELSE Str(<<>>)>> >>)
  IN  Obj(<< <<"fullTranslation", IF Falsy(Get(parsed, "fullTranslation")) THEN Str(<<>>)
                                  ELSE Get(parsed, "fullTranslation")>>,
             <<"sentencePairs", Arr([idx \in 1..Len(rawPairs) |-> pair(idx)])>> >>)

\* what a function does with the settled request
ResultOf(fn, provider, reply) ==
  LET hasText == reply.present /\ reply.text # <<>>
      content == IF hasText THEN reply.text ELSE <<>>
      jsonString == IF provider = "openai" \/ hasText THEN content
                    ELSE Stringify(Obj(<<>>))
      parsed == Parse(CleanJson(jsonString))
  IN  IF reply.kind # "ok" THEN Caught(fn)
      ELSE CASE fn = "testConnection" ->
                  Returned(Bool(provider = "gemini" \/ hasText))
             [] fn = "generatePracticeContent" ->
                  IF provider = "openai" THEN Returned(Str(content))
                  ELSE IF Trim(content) = <<>> THEN Returned(Lit("Failed to generate content."))
                  ELSE Returned(Str(Trim(content)))
             [] fn = "getCoachResponse" ->
                  IF provider = "openai" \/ hasText THEN Returned(Str(content))
                  ELSE Returned(Lit("I apologize, I couldn't process that question right now."))
             [] fn = "analyzeBackTranslation" ->
                  IF parsed.ok THEN Returned(parsed.v) ELSE Caught(fn)
             [] fn = "generateTargetTranslation" ->
                  IF parsed.ok /\ parsed.v # JNull THEN Returned(TranslationOf(parsed.v))
                  ELSE Caught(fn)

\* a service function, from its call to its request or, when callOpenAI
\* throws before it fetches, to its catch block
ServiceCall(fn) ==
  /\ UNCHANGED outsideAI
  /\ aiPc \in {"idle", "done"}
  /\ aiFn' = fn
  /\ aiReply' = NoAiReply
  /\ LET config == aiArg IN
       /\ UNCHANGED aiArg
       /\ IF OpenAIPath(config)
          THEN IF OpenAIRefuses(config)
               THEN /\ aiRequests' = <<>>
                    /\ aiResult' = Caught(fn)
                    /\ aiPc' = "done"
               ELSE /\ aiRequests' = <<OpenAIRequest(fn, config)>>
                    /\ aiResult' = NoResult
                    /\ aiPc' = "awaiting"
          ELSE /\ aiRequests' = <<GeminiRequest(fn, config)>>
               /\ aiResult' = NoResult
               /\ aiPc' = "awaiting"

testConnection == ServiceCall("testConnection")
generateTargetTranslation == ServiceCall("generateTargetTranslation")
generatePracticeContent == ServiceCall("generatePracticeContent")
analyzeBackTranslation == ServiceCall("analyzeBackTranslation")
getCoachResponse == ServiceCall("getCoachResponse")

\* the provider settles the request
ProviderSettles ==
  /\ UNCHANGED outsideAI
  /\ aiPc = "awaiting"
  /\ aiReply' \in ProviderReplies(aiFn, aiRequests[1].provider)
  /\ aiPc' = "settled"
  /\ UNCHANGED <<aiFn, aiArg, aiRequests, aiResult>>

\* the function, from the settling of its request to its return or throw
ServiceResume ==
  /\ UNCHANGED outsideAI
  /\ aiPc = "settled"
  /\ aiResult' = ResultOf(aiFn, aiRequests[1].provider, aiReply)
  /\ aiPc' = "done"
  /\ UNCHANGED <<aiFn, aiArg, aiRequests, aiReply>>

AIIdle ==
  /\ aiFn = "none"
  /\ aiArg = DEFAULT_CONFIG
  /\ aiPc = "idle"
  /\ aiRequests = <<>>
  /\ aiReply = NoAiReply
  /\ aiResult = NoResult

\* the config of the calls is any config App can hold
AIStart ==
  /\ aiFn = "none"
  /\ aiArg \in AIConfigs
  /\ aiPc = "idle"
  /\ aiRequests = <<>>
  /\ aiReply = NoAiReply
  /\ aiResult = NoResult

NextAI ==
  \/ testConnection
  \/ generateTargetTranslation
  \/ generatePracticeContent
  \/ analyzeBackTranslation
  \/ getCoachResponse
  \/ ProviderSettles
  \/ ServiceResume

(***************************************************************************)
(* App: the connection test of the settings.  The Test button is on the    *)
(* custom tab and is disabled while connectionStatus is 'testing'.  A run  *)
(* of handleTestConnection awaits testConnection, sets the outcome and     *)
(* leaves a timer of 3 seconds behind.  Closing the settings changes       *)
(* nothing here; opening them sets connectionStatus.                       *)
(***************************************************************************)
NoTests == <<>>

\* a run of handleTestConnection that awaits testConnection(aiConfig)
TestStarted(config) ==
  [phase |-> "awaiting", success |-> FALSE,
   refused |-> (~Falsy(Get(config, "useCustom")) /\ Get(config, "provider") = Lit("openai")
                /\ OpenAIRefuses(config))]

\* what testConnection can resolve with: false when callOpenAI throws before
\* its fetch, else what the provider's answer makes it
TestOutcomes(test) == IF test.refused THEN {FALSE} ELSE BOOLEAN

\* the timer's callback: if (success) setConnectionStatus('idle')
StatusAfterTimer(test) == IF test.success THEN "idle" ELSE connectionStatus

\* the settings button of the header
OpenSettings ==
  /\ UNCHANGED <<outsideConnection, cnTests>>
  /\ Settled
  /\ connectionStatus' = "idle"

\* a click on Test Connection, up to the await
handleTestConnection ==
  /\ UNCHANGED outsideConnection
  /\ Settled /\ settingsTab = "custom"
  /\ connectionStatus # "testing"
  /\ Len(cnTests) < MaxTests
  /\ connectionStatus' = "testing"
  /\ cnTests' = Append(cnTests, TestStarted(aiConfig))

\* testConnection resolves and handleTestConnection runs to its end
TestResume ==
  /\ UNCHANGED outsideConnection
  /\ \E i \in 1..Len(cnTests) : \E ok \in TestOutcomes(cnTests[i]) :
       /\ cnTests[i].phase = "awaiting"
       /\ connectionStatus' = IF ok THEN "success" ELSE "error"
       /\ cnTests' = [cnTests EXCEPT ![i] = [phase |-> "timer", success |-> ok,
                                             refused |-> FALSE]]

\* the timer of a finished test fires
ResetTimer ==
  /\ UNCHANGED outsideConnection
  /\ \E i \in 1..Len(cnTests) :
       /\ cnTests[i].phase = "timer"
       /\ connectionStatus' = StatusAfterTimer(cnTests[i])
       /\ cnTests' = [cnTests EXCEPT ![i].phase = "over"]

ConnectionStart ==
  /\ connectionStatus = "idle"
  /\ cnTests = NoTests

NextConnection ==
  \/ Mount
  \/ RunEffect
  \/ OpenSettings
  \/ SelectPresetTab
  \/ SelectCustomTab
  \/ EditSetting
  \/ handleTestConnection
  \/ TestResume
  \/ ResetTimer

(***************************************************************************)
(* LibraryModal: search and review mode.  The header with the search       *)
(* input, the list and the Start Review button shows outside review mode;  *)
(* the card with its buttons shows in review mode when there is a card at  *)
(* reviewIndex.  A handler runs on what the last render showed.            *)
(***************************************************************************)
SearchTerms == {<<>>, <<"a">>, <<"B">>}
ReviewInputs == {<<>>, <<"a">>}

filteredVocabulary == Filtered(vocabulary, searchTerm)

\* renderReviewMode found a card and rendered it with its buttons
CardShown == isReviewMode /\ reviewIndex < Len(filteredVocabulary)

\* onChange of the search input
setSearchTerm ==
  /\ UNCHANGED <<outsideReview, dataVars, stVars>>
  /\ Settled /\ ~isReviewMode
  /\ \E term \in SearchTerms : searchTerm' = term
  /\ UNCHANGED <<isReviewMode, reviewIndex, isFlipped, reviewInput>>

startReview ==
  /\ UNCHANGED <<outsideReview, dataVars, stVars>>
  /\ Settled /\ ~isReviewMode
  /\ Len(filteredVocabulary) # 0
  /\ isReviewMode' = TRUE
  /\ reviewIndex' = 0
  /\ isFlipped' = FALSE
  /\ reviewInput' = <<>>
  /\ UNCHANGED searchTerm

\* the Exit button, the Back to Library button or the Escape key
exitReview ==
  /\ UNCHANGED <<outsideReview, dataVars, stVars>>
  /\ Settled /\ isReviewMode
  /\ isReviewMode' = FALSE
  /\ isFlipped' = FALSE
  /\ reviewInput' = <<>>
  /\ UNCHANGED <<searchTerm, reviewIndex>>

nextCard ==
  /\ UNCHANGED <<outsideReview, dataVars, stVars>>
  /\ Settled /\ CardShown
  /\ isFlipped' = FALSE
  /\ reviewIndex' = (reviewIndex + 1) % Len(filteredVocabulary)
  /\ reviewInput' = <<>>
  /\ UNCHANGED <<searchTerm, isReviewMode>>

prevCard ==
  /\ UNCHANGED <<outsideReview, dataVars, stVars>>
  /\ Settled /\ CardShown
  /\ isFlipped' = FALSE
  /\ reviewIndex' = (reviewIndex - 1 + Len(filteredVocabulary)) % Len(filteredVocabulary)
  /\ reviewInput' = <<>>
  /\ UNCHANGED <<searchTerm, isReviewMode>>

toggleFlip ==
  /\ UNCHANGED <<outsideReview, dataVars, stVars>>
  /\ Settled /\ CardShown
  /\ isFlipped' = ~isFlipped
  /\ UNCHANGED <<searchTerm, isReviewMode, reviewIndex, reviewInput>>

\* onChange of the input under the card
setReviewInput ==
  /\ UNCHANGED <<outsideReview, dataVars, stVars>>
  /\ Settled /\ CardShown
  /\ \E text \in ReviewInputs : reviewInput' = text
  /\ UNCHANGED <<searchTerm, isReviewMode, reviewIndex, isFlipped>>

\* the Mastered button: onDeleteVocabulary is deleteVocabulary of App, and
\* the render that follows is renderReviewMode's
deleteCurrentCard ==
  /\ UNCHANGED outsideReview
  /\ Settled /\ CardShown
  /\ LET cards == filteredVocabulary
         currentCard == cards[reviewIndex + 1]
         moved == IF Len(cards) <= 1 THEN reviewIndex
                  ELSE IF reviewIndex >= Len(cards) - 1
                  THEN (IF reviewIndex - 1 > 0 THEN reviewIndex - 1 ELSE 0)
                  ELSE reviewIndex
     IN  /\ isReviewMode' = (Len(cards) > 1)
         /\ vocabulary' = SelectSeq(vocabulary,
                                    LAMBDA v : Get(v, "id") # Get(currentCard, "id"))
         /\ reviewIndex' = IndexRendered(Filtered(vocabulary', searchTerm),
                                         isReviewMode', moved)
  /\ isFlipped' = FALSE
  /\ reviewInput' = <<>>
  /\ effects' = EffectsAfter(FALSE, TRUE, FALSE)
  /\ userActed' = TRUE
  /\ UNCHANGED <<searchTerm, history, aiConfig, settingsTab, storage, phase>>

\* the modal is closed from its header or with Escape, and the effect on
\* isOpen resets the review
CloseLibrary ==
  /\ UNCHANGED <<outsideReview, dataVars, stVars>>
  /\ Settled /\ ~isReviewMode
  /\ isReviewMode' = FALSE
  /\ isFlipped' = FALSE
  /\ reviewIndex' = 0
  /\ UNCHANGED <<searchTerm, reviewInput>>

ReviewStart ==
  /\ searchTerm = <<>>
  /\ isReviewMode = FALSE
  /\ reviewIndex = 0
  /\ isFlipped = FALSE
  /\ reviewInput = <<>>

\* the list is added to from the results page and deleted from in the list
\* of the modal, both out of reach in review mode; a backup file that was
\* picked is imported whenever its reader has loaded it
NextReview ==
  \/ Mount
  \/ RunEffect
  \/ (~isReviewMode /\ addToVocabulary)
  \/ (~isReviewMode /\ deleteVocabulary)
  \/ handleFileChange
  \/ setSearchTerm
  \/ startReview
  \/ exitReview
  \/ nextCard
  \/ prevCard
  \/ toggleFlip
  \/ setReviewInput
  \/ deleteCurrentCard
  \/ CloseLibrary

(***************************************************************************)
(* Specifications.                                                         *)
(***************************************************************************)
InitWorkflowSpec == WorkflowStart /\ ProxyIdle /\ StoreIdle /\ SyncIdle /\ AIIdle /\ ConnectionStart /\ ReviewStart

SpecWorkflow == InitWorkflowSpec /\ [][NextWorkflow]_vars

InitProxySpec == ProxyStart /\ WorkflowStart /\ StoreIdle /\ SyncIdle /\ AIIdle /\ ConnectionStart /\ ReviewStart

SpecProxy == InitProxySpec /\ [][NextProxy]_vars

InitStoreSpec == StoreStart /\ WorkflowStart /\ ProxyIdle /\ SyncIdle /\ AIIdle /\ ConnectionStart /\ ReviewStart

SpecStore == InitStoreSpec /\ [][NextStore]_vars

InitSyncSpec == SyncStartState /\ StoreIdle /\ ProxyStart /\ WorkflowStart /\ AIIdle /\ ConnectionStart /\ ReviewStart

SpecSync == InitSyncSpec /\ [][NextSync]_vars

InitAISpec == AIStart /\ WorkflowStart /\ ProxyIdle /\ StoreIdle /\ SyncIdle /\ ConnectionStart /\ ReviewStart

SpecAI == InitAISpec /\ [][NextAI]_vars

InitConnectionSpec ==
  /\ ConnectionStart /\ StoreIdle /\ WorkflowStart /\ ProxyIdle /\ SyncIdle /\ AIIdle
  /\ ReviewStart

SpecConnection == InitConnectionSpec /\ [][NextConnection]_vars

InitReviewSpec ==
  /\ ReviewStart /\ StoreStart /\ WorkflowStart /\ ProxyIdle /\ SyncIdle /\ AIIdle
  /\ ConnectionStart

SpecReview == InitReviewSpec /\ [][NextReview]_vars

\* React runs what it scheduled, a pending testConnection settles, and a
\* timer that was set fires; nothing obliges the user to act
FairConnection ==
  /\ SpecConnection
  /\ WF_vars(RunEffect) /\ WF_vars(TestResume) /\ WF_vars(ResetTimer)

(***************************************************************************)
(* Properties of the connection test.                                      *)
(***************************************************************************)
\* some run of handleTestConnection awaits testConnection
InFlight == \E i \in 1..Len(cnTests) : cnTests[i].phase = "awaiting"

\* some run of handleTestConnection has ended and its timer has yet to fire
TimerPending == \E i \in 1..Len(cnTests) : cnTests[i].phase = "timer"

\* C14: once handleTestConnection has completed, with success or with
\* failure, connectionStatus becomes 'idle' again, the user doing nothing
C14_ReturnsToIdle == TimerPending ~> (connectionStatus = "idle")

\* after a test that succeeded the timer does reset the status
ReturnsToIdleAfterSuccess ==
  (\E i \in 1..Len(cnTests) : cnTests[i].phase = "timer" /\ cnTests[i].success)
    ~> (connectionStatus = "idle")

\* C15: connectionStatus is 'testing' exactly while a test is in flight
C15_TestingWhileInFlight == (connectionStatus = "testing") <=> InFlight

\* no step moves the status to 'idle' while a test that was in flight before
\* the step is still in flight after it
NoResetWhileInFlight ==
  [][(\E i \in 1..Len(cnTests) : cnTests[i].phase = "awaiting" /\ cnTests'[i].phase = "awaiting")
       => (connectionStatus' = "idle" => connectionStatus = "idle")]_vars

\* when a run of handleTestConnection ends, the status it leaves is the
\* outcome of the test that started last
LatestOutcomeShown ==
  [][TestResume => LET last == cnTests'[Len(cnTests')] IN
                     /\ last.phase # "awaiting"
                     /\ connectionStatus' = IF last.success THEN "success" ELSE "error"]_vars

(***************************************************************************)
(* Properties of review mode.                                              *)
(***************************************************************************)
\* C16: in review mode with a filtered vocabulary that is not empty,
\* reviewIndex is the index of one of its cards, whatever handlers and
\* vocabulary changes came before; and nextCard and prevCard run only on a
\* list that is not empty
C16_IndexDesignatesCard ==
  /\ []((isReviewMode /\ Len(filteredVocabulary) > 0) =>
          reviewIndex \in 0..(Len(filteredVocabulary) - 1))
  /\ [][(nextCard \/ prevCard) => Len(filteredVocabulary) > 0]_vars

\* C16 witness: Mastered on a card whose id another card had left one card,
\* not yet saved, and the review shows it at index 0
C16_Witness ==
  /\ isReviewMode /\ reviewIndex = 0
  /\ vocabulary = <<VocabTwo>>
  /\ storage.echoLoopVocabulary = Entry(Stringify(Arr(<<VocabTwo, VocabOneRead, VocabOneRead>>)))

\* C16 witness of the navigation: the last of three cards, flipped
C16_WitnessLastCard ==
  /\ isReviewMode /\ isFlipped
  /\ Len(filteredVocabulary) = 3 /\ reviewIndex = 2

(***************************************************************************)
(* Properties of the proxy handler.                                        *)
(***************************************************************************)
ReqAction == Get(pxReq.body, "action")
ReqWebDav == Get(pxReq.body, "webdav")

\* C2: an invocation issues at most one outbound request, to webdav.url, a
\* PUT for push and a GET for pull and no other verb, none for another
\* action; a failed outbound request is answered 500 with an error and
\* stays the invocation's only outbound request
C2_AtMostOnePutOrGet ==
  /\ Len(pxOut) <= 1
  /\ \A i \in 1..Len(pxOut) :
       /\ pxOut[i].method \in {"PUT", "GET"}
       /\ pxOut[i].url = Get(ReqWebDav, "url").s
       /\ ReqAction \in {Lit("push"), Lit("pull")}
       /\ (ReqAction = Lit("push")) => pxOut[i].method = "PUT"
       /\ (ReqAction = Lit("pull")) => pxOut[i].method = "GET"
  /\ (pxPc = "done" /\ pxReply.kind \in {"throw", "notok"}) =>
       /\ Len(pxOut) = 1
       /\ pxRes.status = 500
       /\ Get(Parse(pxRes.body).v, "error") # Undef

\* C2 witness: a push whose PUT the server refused has been answered
C2_Witness ==
  /\ pxPc = "done" /\ pxReply.kind = "notok"
  /\ Len(pxOut) = 1 /\ pxOut[1].method = "PUT"
  /\ pxRes.status = 500

\* the credentials a server reads out of an Authorization header are the
\* request's username and password
CarriesCredentials(o, webdav) ==
  /\ Len(o.authorization) > Len(BasicPrefix)
  /\ SubSeq(o.authorization, 1, Len(BasicPrefix)) = BasicPrefix
  /\ Base64Decode(SubSeq(o.authorization, Len(BasicPrefix) + 1, Len(o.authorization)))
       = Bytes(Get(webdav, "username").s) \o <<58>> \o Bytes(Get(webdav, "password").s)

\* the request's webdav member, its url, username or password is missing or
\* empty
ReqConfigMissing ==
  \/ ReqWebDav.t # "obj"
  \/ \E key \in {"url", "username", "password"} :
       Get(ReqWebDav, key) \in {Undef, JNull, Str(<<>>)}

MissingConfigAnswer ==
  /\ pxRes.status = 400
  /\ Get(Parse(pxRes.body).v, "error") = Lit("Missing WebDAV configuration")
  /\ pxOut = <<>>

C3_WitnessRefused ==
  /\ pxPc = "done" /\ pxReq.method = "POST"
  /\ ReqWebDav.t = "obj" /\ Get(ReqWebDav, "password") = Str(<<>>)
  /\ MissingConfigAnswer

\* C4: an invocation that receives the same request and the same reply from
\* the server as an earlier one writes the same response, whatever was
\* handled in between
C4_Stateless ==
  (pxPc = "done" /\ pxMark.set /\ pxMark.req = pxReq /\ pxMark.reply = pxReply)
    => pxRes = pxMark.res

\* C4 witness: the same pull met the same failure again, after other
\* requests were handled in between
C4_Witness ==
  /\ pxPc = "done" /\ pxMark.set /\ pxMark.later = "many"
  /\ pxMark.req = pxReq /\ pxMark.reply = pxReply
  /\ pxReply.kind = "throw" /\ ReqAction = Lit("pull")

\* the error member of the response
ResError == Get(Parse(pxRes.body).v, "error")

\* the remote replied ok and, for a pull, its body parsed as JSON
RemoteSucceeded ==
  /\ pxReply.kind = "ok"
  /\ ReqAction = Lit("pull") => Parse(pxReply.text).ok

\* the response the invocation that has ended owes to its request and to the
\* reply of the remote
StatusAsDetermined ==
  IF pxReq.method # "POST"
  THEN pxRes.status = 405 /\ pxOut = <<>>
  ELSE IF ReqConfigMissing
  THEN pxRes.status = 400 /\ ResError = Lit("Missing WebDAV configuration") /\ pxOut = <<>>
  ELSE IF ReqAction \notin {Lit("push"), Lit("pull")}
  THEN pxRes.status = 400 /\ ResError = Lit("Invalid action") /\ pxOut = <<>>
  ELSE /\ pxRes.status \in {200, 500}
       /\ pxRes.status = 200 <=> RemoteSucceeded

C11_WitnessOrder ==
  /\ pxPc = "done" /\ pxReq.method = "POST"
  /\ ReqAction = Lit("delete") /\ ReqWebDav = Undef
  /\ pxRes.status = 400 /\ ResError = Lit("Missing WebDAV configuration")

(***************************************************************************)
(* Properties of the App's data and its copies in localStorage.            *)
(***************************************************************************)
\* C7: once the effects scheduled by the last change have run, each of the
\* three localStorage entries is exactly the JSON text of the state it
\* mirrors: history, vocabulary, aiConfig.
C7_PersistenceFollows ==
  Settled =>
    /\ storage.echoLoopHistory = Entry(Stringify(Arr(history)))
    /\ storage.echoLoopVocabulary = Entry(Stringify(Arr(vocabulary)))
    /\ storage.echoLoopConfig = Entry(Stringify(aiConfig))

C7_Witness ==
  /\ Settled /\ userActed
  /\ history = <<HistoryTwo>>
  /\ vocabulary = <<VocabOne>>
  /\ Get(aiConfig, "provider") = Lit("openai")
  /\ storage.echoLoopVocabulary = Entry(Stringify(Arr(<<VocabOneRead>>)))

\* the entry holds the JSON text of a list
HoldsList(entry) ==
  /\ entry.present
  /\ Parse(entry.text).ok
  /\ IsArray(Parse(entry.text).v)

StartsAs(entry, entryAfter, listAfter) ==
  HoldsList(entry) =>
    /\ HoldsList(entryAfter)
    /\ Parse(entryAfter.text).v = Parse(entry.text).v
    /\ phase' = "mounted" => Arr(listAfter) = Parse(entry.text).v

\* C8: in every step of start-up (a step before any user operation), a
\* history or vocabulary entry of localStorage that holds a JSON list still
\* decodes to that list after the step, and once the App is mounted the
\* state in memory is that list.
C8_StartupKeepsStored ==
  [][~userActed' =>
       /\ StartsAs(storage.echoLoopHistory, storage'.echoLoopHistory, history')
       /\ StartsAs(storage.echoLoopVocabulary, storage'.echoLoopVocabulary, vocabulary')]_vars

C8_Witness ==
  /\ Settled /\ ~userActed
  /\ history = <<HistoryTwo, HistoryOne>>
  /\ vocabulary = <<VocabOneRead>>
  /\ storage.echoLoopHistory = Entry(Stringify(Arr(<<HistoryTwo, HistoryOne>>)))
  /\ Get(aiConfig, "useCustom") = Bool(TRUE)

\* C9: an import into lists that have no duplicate ids leaves lists that have
\* no duplicate ids.
C9_ImportAvoidsDuplicates ==
  [][(handleFileChange /\ NoDuplicateIds(history) /\ NoDuplicateIds(vocabulary))
       => (NoDuplicateIds(history') /\ NoDuplicateIds(vocabulary'))]_vars

(***************************************************************************)
(* Properties of push and pull.                                            *)
(***************************************************************************)
\* the pull in flight has been answered with a well-formed backup
PullBringsBackup ==
  /\ syCall.kind = "pull"
  /\ ResponseOk(pxRes)
  /\ IsBackup(PulledData(pxRes))

\* C5: a pull that succeeds with a well-formed backup leaves the local
\* history and vocabulary equal to the lists of the backup.
C5_PullOverwrites ==
  [][(SyncResume /\ PullBringsBackup)
       => /\ Arr(history') = Get(PulledData(pxRes), "history")
          /\ Arr(vocabulary') = Get(PulledData(pxRes), "vocabulary")]_vars

\* the file decodes to a backup with the lists of the last push; a member
\* whose value is undefined and a member that is absent are the same
FileHoldsPushed ==
  /\ davFile.exists
  /\ Parse(davFile.text).ok
  /\ SameValue(Get(Parse(davFile.text).v, "history"), Arr(syPushed.history))
  /\ SameValue(Get(Parse(davFile.text).v, "vocabulary"), Arr(syPushed.vocabulary))

\* the last push succeeded and nobody else has written the file since
PushedAndUntouched == syPushed.acked /\ davFile.writer = "proxy"

PullReturnsPushed ==
  /\ IsBackup(PulledData(pxRes))
  /\ SameValue(Get(PulledData(pxRes), "history"), Arr(syPushed.history))
  /\ SameValue(Get(PulledData(pxRes), "vocabulary"), Arr(syPushed.vocabulary))
  /\ (history = syPushed.history /\ vocabulary = syPushed.vocabulary)
       => UNCHANGED <<history, vocabulary>>

\* C6: after a successful push, while nobody else writes the file, the file
\* decodes to the pushed history and vocabulary; a successful pull then
\* returns lists equal to the pushed ones, and leaves the local lists as they
\* are when they are still the pushed ones.
C6_RoundTrip ==
  /\ [](PushedAndUntouched => FileHoldsPushed)
  /\ [][(SyncResume /\ syCall.kind = "pull" /\ ResponseOk(pxRes) /\ PushedAndUntouched)
          => PullReturnsPushed]_vars

C6_Witness ==
  /\ syCall = NoSyncCall
  /\ syAlert = AlertPulled
  /\ PushedAndUntouched
  /\ syPushed.vocabulary = <<VocabOne>>
  /\ vocabulary = <<VocabOne>>

\* WebDAV is not fully configured: no config, not enabled, or no url, no
\* username or no password
NotFullyConfigured ==
  \/ webdavConfig = Undef
  \/ Get(webdavConfig, "enabled") # Bool(TRUE)
  \/ \E key \in {"url", "username", "password"} : Get(webdavConfig, key) = Str(<<>>)

\* the step sends no request to /api/webdav-sync and leaves the local lists
NothingSent ==
  /\ syCall' = NoSyncCall
  /\ UNCHANGED <<pxVars, syCount, history, vocabulary>>

\* data has no array 'history' or no array 'vocabulary'
LacksLists(data) ==
  ~IsArray(Get(data, "history")) \/ ~IsArray(Get(data, "vocabulary"))

\* C12: a click on Push or Pull that the user declines, or that finds WebDAV
\* not fully configured, sends no request to the proxy and changes no local
\* list; a pull whose response is not ok, or whose data lacks an array
\* 'history' or an array 'vocabulary', imports nothing: history and
\* vocabulary stay as they are.
C12_DeclinedChangesNothing ==
  /\ [][((handleSyncUpload \/ handleSyncDownload)
           /\ (NotFullyConfigured \/ syAlert' = ConfirmDeclined)) => NothingSent]_vars
  /\ [][(SyncResume /\ syCall.kind = "pull"
           /\ (~ResponseOk(pxRes) \/ LacksLists(PulledData(pxRes))))
          => UNCHANGED <<history, vocabulary>>]_vars

\* C12 witness: with WebDAV configured and a local vocabulary, the user has
\* declined a sync after an earlier pull brought an object without lists
C12_Witness ==
  /\ syAlert = ConfirmDeclined /\ ~NotFullyConfigured
  /\ syCall = NoSyncCall /\ syCount = 1
  /\ pxRes.status = 200 /\ LacksLists(PulledData(pxRes))
  /\ vocabulary # <<>>

\* C12 witness: a click without a password was refused before any request
C12_WitnessNotConfigured ==
  /\ syAlert = AlertNotConfigured /\ Get(webdavConfig, "password") = Str(<<>>)
  /\ pxReq = NoReq /\ syCount = 0

(***************************************************************************)
(* Properties of the AI service.                                           *)
(***************************************************************************)
\* the four functions that delegate the hard operations
HardOperations ==
  {"generateTargetTranslation", "analyzeBackTranslation",
   "generatePracticeContent", "getCoachResponse"}

\* the request of a call whose config has useCustom false: the key of the
\* environment, no base URL, the preset model
PresetRequest ==
  [provider |-> "gemini", apiKey |-> EnvApiKey, url |-> NoBaseUrl,
   model |-> Get(aiArg, "selectedPresetId"), json |-> aiFn \in JsonFunctions]

RoutedByConfig ==
  /\ Len(aiRequests) = 1
  /\ aiRequests[1].provider = "openai" <=> OpenAIPath(aiArg)
  /\ Falsy(Get(aiArg, "useCustom")) => aiRequests = <<PresetRequest>>

\* C10 as stated: every call of the four functions issues exactly one provider
\* request, to the OpenAI-compatible endpoint iff useCustom and provider is
\* 'openai', and with useCustom false the request is the preset one.
C10_Original ==
  (aiPc = "done" /\ aiFn \in HardOperations) => RoutedByConfig

\* the call is on the OpenAI path with an empty custom key or base URL
RefusedByCallOpenAI ==
  /\ OpenAIPath(aiArg)
  /\ Get(aiArg, "customApiKey") = Str(<<>>) \/ Get(aiArg, "customBaseUrl") = Str(<<>>)

\* C10: a call of the four functions issues exactly one provider request,
\* routed by useCustom and provider, and with useCustom false the request is
\* the preset one; except that a call on the OpenAI path with an empty custom
\* key or base URL issues no request and ends in its catch block.
C10_Delegation ==
  (aiPc # "idle" /\ aiFn \in HardOperations) =>
    IF RefusedByCallOpenAI
    THEN /\ aiRequests = <<>>
         /\ aiPc = "done"
         /\ aiResult.kind = IF aiFn = "getCoachResponse" THEN "returned" ELSE "threw"
    ELSE RoutedByConfig

C10_Witness ==
  /\ aiPc = "done" /\ aiFn = "analyzeBackTranslation"
  /\ Len(aiRequests) = 1 /\ aiRequests[1].provider = "openai"
  /\ aiResult.kind = "returned"

C10_WitnessPreset ==
  /\ aiPc = "done" /\ aiFn = "getCoachResponse"
  /\ Get(aiArg, "useCustom") = Bool(FALSE)
  /\ Get(aiArg, "provider") = Lit("openai")
  /\ Get(aiArg, "customModelName") = Str(<<" ", "m">>)
  /\ aiRequests = <<PresetRequest>>

====
